---- MODULE Spec2Model ----
(***************************************************************************)
(* A model of the concurrency and data-access core of async-ecs:           *)
(*   - the dispatcher builder (dependency graph and its reduction), the    *)
(*     spawned unit tasks and the tick / completion signal protocol,       *)
(*   - the runtime borrow-checked resource Cell,                           *)
(*   - the generational entity registry (Entities and its IndexCache).     *)
(* Each part has its own specification over the shared variable list; a    *)
(* specification leaves the variables of the other parts unchanged.        *)
(***************************************************************************)
EXTENDS Integers, Sequences, FiniteSets, TLC

\* ------------------------------------------------------------------------
\* Bounds of the model
\* ------------------------------------------------------------------------

\* number of add calls made on one Builder
MaxUnits == 2

\* number of dispatch calls made on one Dispatcher
MaxTicks == 2

\* number of units added to a Builder whose units are not run
MaxItems == 5

\* number of threads that share one Cell, or one Entities registry
NumThreads == 2

\* number of Ref guards one thread holds at a time
MaxRefs == 2

\* number of entities handed out by one Entities registry
MaxEntities == 3

\* number of maintain calls made on one Entities registry
MaxMaintains == 2

\* length of the slice passed to one kill call
MaxBatch == 2

\* number of entity indices a component storage is used with
NumIndices == 2

\* number of values left behind in the data of a cleared DenseVecStorage
MaxLeaked == 1

\* updates waiting in the Lazy queue
MaxQueue == 1

\* entities handed out by a World
MaxHanded == 2

\* calls of World::maintain
MaxPasses == 2

\* the highest index of a joined mask
MaxIndex == 4

\* calls of Builder::add with names and dependencies of any kind
MaxAdds == 3

\* indices in the bitset a BitIter is made over
MaxKeys == 5

\* closures that log, pushed to the Lazy queue from outside of maintain
MaxClosures == 2

\* ------------------------------------------------------------------------
\* State
\* ------------------------------------------------------------------------

VARIABLES
    \* Builder (dispatcher/builder.rs)
    next_id,        \* Builder::next_id
    items,          \* Builder::items : SystemId -> Item
    names,          \* Builder::names : name -> SystemId
    add_result,     \* what the last add call returned
    built,          \* Builder::build has consumed the builder
    \* unit tasks and channels (dispatcher/task.rs, tokio watch channels)
    task,           \* SystemId -> the task spawned for the unit
    version,        \* channel -> number of values sent on it
    \* Dispatcher (dispatcher/mod.rs)
    disp,           \* the dispatch call and what it owns
    world,          \* SharedWorld: the pointer slot and the RefCell's counter
    \* resource Cell (resource/cell.rs)
    flag,           \* Cell::flag
    cell,           \* thread -> its call in progress and the guards it holds
    last,           \* the call that returned last: its thread and what it returned
    \* entity registry (entity/entities.rs)
    ent,            \* the fields of Entities and of its IndexCache
    ecall,          \* thread -> its create call in progress
    ehist,          \* what the callers have been handed and have asked for
    \* component storage (storage/*.rs)
    sto,            \* a MaskedStorage: its mask and its backing Storage
    shist,          \* the partial map it stands for, and what the last call returned
    \* World (world/mod.rs, world/lazy.rs, entity/builder.rs)
    wld,            \* the Entities, the registered storages, the Lazy queue, the EntityBuilder
    whist,          \* the entities handed out, and the last call and what it returned
    \* join (join/iter.rs, join/impls.rs)
    jiter,          \* the sources joined and the JoinIter over them
    joined,         \* the items the iterator has yielded
    \* parallel join (misc/bit/iter.rs, access/par_join.rs)
    split           \* a BitIter over a set of indices, and the part split off it

dispVars == <<next_id, items, names, add_result, built, task, version, disp, world>>

cellVars == <<flag, cell, last>>

entVars == <<ent, ecall, ehist>>

stoVars == <<sto, shist>>

worldVars == <<wld, whist>>

joinVars == <<jiter, joined, split>>

vars == <<dispVars, cellVars, entVars, stoVars, worldVars, joinVars>>

\* ------------------------------------------------------------------------
\* Generic helpers
\* ------------------------------------------------------------------------

Range(s) == {s[i] : i \in 1..Len(s)}

Min(S) == CHOOSE x \in S : \A y \in S : x <= y

\* Vec::sort followed by Vec::dedup on a list of ids, given as the set of
\* its elements: the ascending duplicate-free list.
RECURSIVE SortDedup(_)
SortDedup(S) ==
    IF S = {} THEN <<>>
    ELSE LET m == Min(S) IN <<m>> \o SortDedup(S \ {m})

\* the subsequence of s at the positions not in drop
RECURSIVE RemoveIndices(_, _, _)
RemoveIndices(s, drop, i) ==
    IF i > Len(s) THEN <<>>
    ELSE (IF i \in drop THEN <<>> ELSE <<s[i]>>) \o RemoveIndices(s, drop, i + 1)

\* ------------------------------------------------------------------------
\* Builder: the dependency graph
\* ------------------------------------------------------------------------

\* the channel the Dispatcher sends one value on per tick
TickChannel == 0

\* mutant of depends_on: only the stored list of a is looked at
depends_on_Direct(its, a, b) == b \in Range(its[a].dependencies)

\* Builder::depends_on: b is reachable from a over stored dependencies
RECURSIVE depends_on(_, _, _)
depends_on(its, a, b) ==
    LET deps == Range(its[a].dependencies) IN
    \/ b \in deps
    \/ \E d \in deps : depends_on(its, d, b)

\* Builder::reduce_dependencies, on the set of the pushed ids.
\* The result is the sorted list without the positions marked for removal.
reduce_dependencies(its, pushed) ==
    LET deps == SortDedup(pushed)
        n == Len(deps)
        remove_indices ==
            {j \in 1..n : \E i \in 1..n : depends_on(its, deps[i], deps[j])}
            \cup
            {i \in 1..n : \E j \in 1..n :
                /\ ~depends_on(its, deps[i], deps[j])
                /\ depends_on(its, deps[j], deps[i])}
    IN RemoveIndices(deps, remove_indices, 1)

\* reduce_dependencies unwraps items.get(a) for every listed id a
ReducePanics(its, pushed) == \E a \in pushed : a \notin DOMAIN its

\* mutant of ImplicitDependencies: the loop over the reads is missing
ImplicitDependencies_NoReadLoop(its, reads, writes) ==
    {k \in DOMAIN its : \E w \in writes : w \in its[k].reads \/ w \in its[k].writes}

\* ids of the already registered units whose accesses conflict with a new
\* unit reading `reads` and writing `writes`
ImplicitDependencies(its, reads, writes) ==
    {k \in DOMAIN its : \E r \in reads : r \in its[k].writes}
    \cup
    {k \in DOMAIN its : \E w \in writes : w \in its[k].reads \/ w \in its[k].writes}

\* the dependency names resolved over the name map
Resolved(nms, dependencies) == {nms[dependencies[i]] : i \in 1..Len(dependencies)}

Item(name, reads, writes, dependencies, raw) ==
    [name |-> name, reads |-> reads, writes |-> writes,
     dependencies |-> dependencies, raw |-> raw]

\* what add returned: Ok, one of the errors with the name it carries, or
\* "panic"; "none" before the first call
AddResult(kind, name) == [kind |-> kind, name |-> name]

NameAlreadyRegistered(name) == AddResult("NameAlreadyRegistered", name)

DependencyWasNotFound(name) == AddResult("DependencyWasNotFound", name)

\* mutant of NameOccupied: no name is found in the map
NameOccupied_Never(nms, name) == FALSE

\* names.entry(name) is Entry::Occupied
NameOccupied(nms, name) == name \in DOMAIN nms

\* Entry::Vacant::insert(id) on names
entry_insert(nms, name, id) ==
    [n \in DOMAIN nms \cup {name} |-> IF n = name THEN id ELSE nms[n]]

\* the first of the dependency names that names.get does not find
FirstNotFound(nms, dependencies) ==
    dependencies[Min({i \in 1..Len(dependencies) : dependencies[i] \notin DOMAIN nms})]

\* mutant of insert_item: the units the new one depends on are given an edge
\* to it as well
insert_item_Symmetric(its, id, item) ==
    [k \in DOMAIN its \cup {id} |->
        IF k = id THEN item
        ELSE IF k \in item.raw
             THEN [its[k] EXCEPT !.dependencies = Append(@, id)]
             ELSE its[k]]

\* items.entry(id) is Entry::Vacant: the Item is inserted
insert_item(its, id, item) ==
    [k \in DOMAIN its \cup {id} |-> IF k = id THEN item ELSE its[k]]

\* Builder::add_inner (with the closure of Builder::add that inserts the Item)
add_inner(name, dependencies, reads, writes) ==
    LET id == next_id + 1
        names1 == entry_insert(names, name, id)
    IN
    /\ ~built
    /\ add_result.kind # "panic"
    /\ next_id' = id
    /\ IF NameOccupied(names, name)
       THEN /\ add_result' = NameAlreadyRegistered(name)
            /\ UNCHANGED <<items, names>>
       ELSE IF \E i \in 1..Len(dependencies) : dependencies[i] \notin DOMAIN names1
       THEN /\ add_result' = DependencyWasNotFound(FirstNotFound(names1, dependencies))
            /\ names' = names1
            /\ UNCHANGED items
       ELSE LET raw == Resolved(names1, dependencies)
                           \cup ImplicitDependencies(items, reads, writes)
            IN
            /\ names' = names1
            /\ IF ReducePanics(items, raw)
               THEN /\ add_result' = AddResult("panic", name)
                    /\ UNCHANGED items
               ELSE /\ add_result' = AddResult("Ok", name)
                    /\ items' = insert_item(items, id,
                                   Item(name, reads, writes,
                                        reduce_dependencies(items, raw), raw))
    /\ UNCHANGED <<built, task, version, disp, world, cellVars, entVars, stoVars, worldVars, joinVars>>

\* mutant of final_systems: the ids are not reduced
final_systems_Unreduced(its) == SortDedup(DOMAIN its)

\* mutant of final_systems: only the last registered unit is taken as final
final_systems_LastOnly(its) ==
    IF DOMAIN its = {} THEN <<>> ELSE <<CHOOSE k \in DOMAIN its : \A j \in DOMAIN its : j <= k>>

\* Builder::final_systems
final_systems(its) == reduce_dependencies(its, DOMAIN its)

\* ------------------------------------------------------------------------
\* Channels (tokio::sync::watch as used by the dispatcher)
\* ------------------------------------------------------------------------

\* mutant of TaskReceivers: every task is given the tick receiver
TaskReceivers_TickOnly(its, id) == <<TickChannel>>

\* the receivers a spawned unit task owns
TaskReceivers(its, id) ==
    IF its[id].dependencies = <<>> THEN <<TickChannel>> ELSE its[id].dependencies

\* mutant of ReceiverCount: the receivers the Dispatcher holds are not counted
ReceiverCount_TasksOnly(c) ==
    Cardinality({u \in DOMAIN task :
                    task[u].pc # "exit" /\ c \in Range(task[u].receivers)})

\* number of live receivers of channel c: send fails when there is none
ReceiverCount(c) ==
    Cardinality({u \in DOMAIN task :
                    task[u].pc # "exit" /\ c \in Range(task[u].receivers)})
    + (IF disp.alive /\ c \in Range(disp.receivers) THEN 1 ELSE 0)

\* the sending half of channel c has been dropped
SenderDropped(c) ==
    IF c = TickChannel THEN ~disp.alive ELSE task[c].pc = "exit"

\* Receiver::changed is ready with Ok: a value was sent since the last one seen
HasChanged(c, seen) == version[c] # seen

\* Sender::send
Send(c) == version' = [version EXCEPT ![c] = @ + 1]

\* ------------------------------------------------------------------------
\* Builder::build
\* ------------------------------------------------------------------------

SpawnedTask(its, id) ==
    [pc |-> "wait",
     receivers |-> TaskReceivers(its, id),
     seen |-> [i \in 1..Len(TaskReceivers(its, id)) |-> 0],
     idx |-> 1,
     ran |-> 0,
     reg |-> 0,
     unwinding |-> FALSE]

build ==
    /\ ~built
    /\ add_result.kind # "panic"
    /\ built' = TRUE
    /\ task' = [id \in DOMAIN items |-> SpawnedTask(items, id)]
    /\ version' = [c \in DOMAIN items \cup {TickChannel} |-> 0]
    /\ disp' = [disp EXCEPT !.receivers = final_systems(items),
                            !.seen = [i \in 1..Len(final_systems(items)) |-> 0]]
    /\ UNCHANGED <<next_id, items, names, add_result, world, cellVars, entVars, stoVars, worldVars, joinVars>>

\* ------------------------------------------------------------------------
\* Unit tasks: execute_inner
\* ------------------------------------------------------------------------

\* receiver.changed().await of the for loop; after the last receiver the task
\* goes on to run.run(&world), which first dereferences the SharedWorld
TaskChanged(u) ==
    LET t == task[u]
        c == t.receivers[t.idx]
    IN
    /\ built
    /\ t.pc = "wait"
    /\ HasChanged(c, t.seen[t.idx]) \/ SenderDropped(c)
    /\ IF HasChanged(c, t.seen[t.idx])
       THEN IF t.idx < Len(t.receivers)
            THEN task' = [task EXCEPT ![u].seen[t.idx] = version[c],
                                      ![u].idx = t.idx + 1]
            ELSE task' = [task EXCEPT ![u].seen[t.idx] = version[c],
                                      ![u].idx = 1,
                                      ![u].pc = "deref"]
       ELSE task' = [task EXCEPT ![u].pc = "exit"]
    /\ UNCHANGED <<next_id, items, names, add_result, built, version, disp, world, cellVars, entVars, stoVars, worldVars, joinVars>>

\* SharedWorld::deref, self.0.borrow(): the RefCell's borrow counter is read.
\* SharedWorld is declared Sync although the counter is not atomic, so the
\* read and the write of the counter are separate steps of the task.
DerefLoad(u) ==
    /\ built
    /\ task[u].pc = "deref"
    /\ task' = [task EXCEPT ![u].reg = world.borrow, ![u].pc = "deref_store"]
    /\ UNCHANGED <<next_id, items, names, add_result, built, version, disp, world, cellVars, entVars, stoVars, worldVars, joinVars>>

\* SharedWorld::deref: the counter is written (or the borrow panics because
\* the counter says "mutably borrowed"), then the pointer is checked for null
DerefStore(u) ==
    LET b == task[u].reg + 1 IN
    /\ built
    /\ task[u].pc = "deref_store"
    /\ IF b <= 0
       THEN /\ task' = [task EXCEPT ![u].pc = "exit", ![u].reg = 0]
            /\ UNCHANGED world
       ELSE /\ world' = [world EXCEPT !.borrow = b]
            /\ task' = [task EXCEPT ![u].pc = "release", ![u].reg = 0,
                                    ![u].unwinding = (world.ptr = "null")]
    /\ UNCHANGED <<next_id, items, names, add_result, built, version, disp, cellVars, entVars, stoVars, worldVars, joinVars>>

\* SharedWorld::deref: the Ref guard is dropped, the counter is read
ReleaseLoad(u) ==
    /\ built
    /\ task[u].pc = "release"
    /\ task' = [task EXCEPT ![u].reg = world.borrow, ![u].pc = "release_store"]
    /\ UNCHANGED <<next_id, items, names, add_result, built, version, disp, world, cellVars, entVars, stoVars, worldVars, joinVars>>

\* SharedWorld::deref: the Ref guard is dropped, the counter is written; the
\* body starts, unless deref panicked with "No World assigned!"
ReleaseStore(u) ==
    /\ built
    /\ task[u].pc = "release_store"
    /\ world' = [world EXCEPT !.borrow = task[u].reg - 1]
    /\ task' = [task EXCEPT ![u].reg = 0, ![u].unwinding = FALSE,
                            ![u].pc = IF task[u].unwinding THEN "exit" ELSE "body"]
    /\ UNCHANGED <<next_id, items, names, add_result, built, version, disp, cellVars, entVars, stoVars, worldVars, joinVars>>

\* run.run(&world) returns
TaskFinish(u) ==
    /\ built
    /\ task[u].pc = "body"
    /\ task' = [task EXCEPT ![u].pc = "send", ![u].ran = @ + 1]
    /\ UNCHANGED <<next_id, items, names, add_result, built, version, disp, world, cellVars, entVars, stoVars, worldVars, joinVars>>

\* run.run(&world) panics (SystemData::fetch of a missing or borrowed
\* resource, or the system itself): the runtime drops the task with its sender
\* and its receivers
TaskPanic(u) ==
    /\ built
    /\ task[u].pc = "body"
    /\ task' = [task EXCEPT ![u].pc = "exit"]
    /\ UNCHANGED <<next_id, items, names, add_result, built, version, disp, world, cellVars, entVars, stoVars, worldVars, joinVars>>

\* sender.send(())
TaskSend(u) ==
    /\ built
    /\ task[u].pc = "send"
    /\ IF ReceiverCount(u) = 0
       THEN task' = [task EXCEPT ![u].pc = "exit"] /\ UNCHANGED version
       ELSE Send(u) /\ task' = [task EXCEPT ![u].pc = "wait"]
    /\ UNCHANGED <<next_id, items, names, add_result, built, disp, world, cellVars, entVars, stoVars, worldVars, joinVars>>

\* ------------------------------------------------------------------------
\* Dispatcher::dispatch
\* ------------------------------------------------------------------------

\* SharedWorld::set and SharedWorld::clear take self.0.borrow_mut(), which
\* panics unless the RefCell's borrow counter is 0
BorrowMutPanics == world.borrow # 0

\* the panic leaves dispatch: the call never returns, and unwinding drops the
\* Dispatcher with its sender and receivers
Panicked(d) == [d EXCEPT !.pc = "panicked", !.result = "panic", !.alive = FALSE]

\* dispatch returns r: the WorldGuard is dropped, which clears the world slot
Return(d, r) ==
    IF BorrowMutPanics
    THEN disp' = Panicked(d) /\ UNCHANGED world
    ELSE /\ disp' = [d EXCEPT !.pc = "idle", !.result = r, !.idx = 1]
         /\ world' = [world EXCEPT !.ptr = "null"]

\* the call up to its first await: publish the world, send the tick signal
dispatch ==
    LET d == [disp EXCEPT !.ticks = @ + 1, !.result = "pending"] IN
    /\ built
    /\ disp.pc = "idle"
    /\ disp.ticks < MaxTicks
    /\ IF BorrowMutPanics
       THEN disp' = Panicked(d) /\ UNCHANGED <<version, world>>
       ELSE IF ReceiverCount(TickChannel) = 0
       THEN Return(d, "DispatchSend") /\ UNCHANGED version
       ELSE /\ Send(TickChannel)
            /\ IF disp.receivers = <<>>
               THEN Return(d, "Ok")
               ELSE /\ disp' = [d EXCEPT !.pc = "await", !.idx = 1]
                    /\ world' = [world EXCEPT !.ptr = "set"]
    /\ UNCHANGED <<next_id, items, names, add_result, built, task, cellVars, entVars, stoVars, worldVars, joinVars>>

\* receiver.changed().await of the loop over the final units' receivers
DispatchChanged ==
    LET c == disp.receivers[disp.idx]
        d == [disp EXCEPT !.seen[disp.idx] = version[c]]
    IN
    /\ built
    /\ disp.pc = "await"
    /\ HasChanged(c, disp.seen[disp.idx]) \/ SenderDropped(c)
    /\ IF HasChanged(c, disp.seen[disp.idx])
       THEN IF disp.idx < Len(disp.receivers)
            THEN disp' = [d EXCEPT !.idx = disp.idx + 1] /\ UNCHANGED world
            ELSE Return(d, "Ok")
       ELSE Return(disp, "DispatchReceive")
    /\ UNCHANGED <<next_id, items, names, add_result, built, task, version, cellVars, entVars, stoVars, worldVars, joinVars>>

\* the host drops the Dispatcher between two dispatch calls: the tick sender
\* and the receivers of the final units are dropped with it
DropDispatcher ==
    /\ built
    /\ disp.pc = "idle"
    /\ disp' = [disp EXCEPT !.pc = "dropped", !.alive = FALSE]
    /\ UNCHANGED <<next_id, items, names, add_result, built, task, version, world, cellVars, entVars, stoVars, worldVars, joinVars>>

\* ------------------------------------------------------------------------
\* Cell: the runtime borrow-checked resource cell
\* ------------------------------------------------------------------------

\* usize::MAX, the flag of an exclusively borrowed Cell. The flag word is
\* written in two's complement, so that the wrapping fetch_add and fetch_sub
\* of the code are the addition and subtraction of integers.
UsizeMax == -1

Threads == 1..NumThreads

InitCell ==
    /\ flag = 0
    /\ cell = [t \in Threads |->
                 [pc |-> "idle", op |-> "none", val |-> 0, refs |-> 0, muts |-> 0]]
    /\ last = [thread |-> 0, value |-> "none"]

\* the call of thread t returns: r is what it returned
CellReturn(t, r, refs, muts) ==
    /\ cell' = [cell EXCEPT ![t] = [pc |-> "idle", op |-> "none", val |-> 0,
                                    refs |-> refs, muts |-> muts]]
    /\ last' = [thread |-> t, value |-> r]

\* what op returns when its check fails
Failure(op) ==
    CASE op = "borrow" -> "panic: already borrowed mutably"
      [] op = "borrow_mut" -> "panic: already borrowed"
      [] OTHER -> "None"

\* what op returns when its check succeeds
Success(op) ==
    IF op \in {"borrow", "try_borrow"} THEN "Ref" ELSE "RefMut"

\* mutant of check_flag_write_ok: only an exclusive borrow is refused
check_flag_write_ok_WriterOnly == flag # UsizeMax

\* Cell::check_flag_write: compare_exchange(0, usize::MAX) succeeds
check_flag_write_ok == flag = 0

\* Cell::check_flag_read: the loaded value is the exclusive marker
check_flag_read_refused(val) == val = UsizeMax

\* Cell::check_flag_read, the load of the loop, for a call (pc = "idle") or
\* for another round of the loop (pc = "load")
CheckFlagReadLoad(t, op) ==
    /\ \/ cell[t].pc = "idle" /\ cell[t].refs < MaxRefs
       \/ cell[t].pc = "load" /\ cell[t].op = op
    /\ IF check_flag_read_refused(flag)
       THEN CellReturn(t, Failure(op), cell[t].refs, cell[t].muts)
       ELSE /\ cell' = [cell EXCEPT ![t].pc = "cas", ![t].op = op, ![t].val = flag]
            /\ UNCHANGED last
    /\ UNCHANGED flag
    /\ UNCHANGED <<dispVars, entVars, stoVars, worldVars, joinVars>>

\* Cell::borrow
borrow(t) == CheckFlagReadLoad(t, "borrow")

\* Cell::try_borrow
try_borrow(t) == CheckFlagReadLoad(t, "try_borrow")

\* Cell::check_flag_read, the compare_exchange(val, val + 1) of the loop
CheckFlagReadCas(t) ==
    /\ cell[t].pc = "cas"
    /\ IF flag = cell[t].val
       THEN /\ flag' = cell[t].val + 1
            /\ CellReturn(t, Success(cell[t].op), cell[t].refs + 1, cell[t].muts)
       ELSE /\ cell' = [cell EXCEPT ![t].pc = "load", ![t].val = 0]
            /\ UNCHANGED <<flag, last>>
    /\ UNCHANGED <<dispVars, entVars, stoVars, worldVars, joinVars>>

\* mutant of CheckFlagWrite: the flag is swapped for the exclusive marker and
\* the old value is looked at afterwards
CheckFlagWrite_Swap(t, op) ==
    /\ cell[t].pc = "idle"
    /\ cell[t].muts = 0
    /\ flag' = UsizeMax
    /\ IF flag = 0
       THEN CellReturn(t, Success(op), cell[t].refs, 1)
       ELSE CellReturn(t, Failure(op), cell[t].refs, cell[t].muts)
    /\ UNCHANGED <<dispVars, entVars, stoVars, worldVars, joinVars>>

\* Cell::borrow_mut and Cell::try_borrow_mut, over Cell::check_flag_write
CheckFlagWrite(t, op) ==
    /\ cell[t].pc = "idle"
    /\ cell[t].muts = 0
    /\ IF check_flag_write_ok
       THEN /\ flag' = UsizeMax
            /\ CellReturn(t, Success(op), cell[t].refs, 1)
       ELSE /\ CellReturn(t, Failure(op), cell[t].refs, cell[t].muts)
            /\ UNCHANGED flag
    /\ UNCHANGED <<dispVars, entVars, stoVars, worldVars, joinVars>>

\* Cell::borrow_mut
borrow_mut(t) == CheckFlagWrite(t, "borrow_mut")

\* Cell::try_borrow_mut
try_borrow_mut(t) == CheckFlagWrite(t, "try_borrow_mut")

\* mutant of RefClone: the clone does not count itself
RefClone_NoCount(t) ==
    /\ cell[t].pc = "idle"
    /\ cell[t].refs \in 1..(MaxRefs - 1)
    /\ CellReturn(t, "cloned", cell[t].refs + 1, cell[t].muts)
    /\ UNCHANGED flag
    /\ UNCHANGED <<dispVars, entVars, stoVars, worldVars, joinVars>>

\* Clone for Ref
RefClone(t) ==
    /\ cell[t].pc = "idle"
    /\ cell[t].refs \in 1..(MaxRefs - 1)
    /\ flag' = flag + 1
    /\ CellReturn(t, "cloned", cell[t].refs + 1, cell[t].muts)
    /\ UNCHANGED <<dispVars, entVars, stoVars, worldVars, joinVars>>

\* Drop for Ref
RefDrop(t) ==
    /\ cell[t].pc = "idle"
    /\ cell[t].refs >= 1
    /\ flag' = flag - 1
    /\ CellReturn(t, "dropped", cell[t].refs - 1, cell[t].muts)
    /\ UNCHANGED <<dispVars, entVars, stoVars, worldVars, joinVars>>

\* Drop for RefMut
RefMutDrop(t) ==
    /\ cell[t].pc = "idle"
    /\ cell[t].muts = 1
    /\ flag' = 0
    /\ CellReturn(t, "dropped", cell[t].refs, 0)
    /\ UNCHANGED <<dispVars, entVars, stoVars, worldVars, joinVars>>

\* Ref::map without the forget: the guard given to map is dropped
RefMap_NoForget(t) ==
    /\ cell[t].pc = "idle"
    /\ cell[t].refs >= 1
    /\ flag' = flag - 1
    /\ CellReturn(t, "mapped", cell[t].refs, cell[t].muts)
    /\ UNCHANGED <<dispVars, entVars, stoVars, worldVars, joinVars>>

\* Ref::map: the guard is forgotten, the new guard holds the same flag
RefMap(t) ==
    /\ cell[t].pc = "idle"
    /\ cell[t].refs >= 1
    /\ UNCHANGED flag
    /\ CellReturn(t, "mapped", cell[t].refs, cell[t].muts)
    /\ UNCHANGED <<dispVars, entVars, stoVars, worldVars, joinVars>>

\* RefMut::map: the guard is forgotten, the new guard holds the same flag
RefMutMap(t) ==
    /\ cell[t].pc = "idle"
    /\ cell[t].muts = 1
    /\ UNCHANGED flag
    /\ CellReturn(t, "mapped_mut", cell[t].refs, cell[t].muts)
    /\ UNCHANGED <<dispVars, entVars, stoVars, worldVars, joinVars>>

NextCell ==
    \/ \E t \in Threads : borrow(t)
    \/ \E t \in Threads : try_borrow(t)
    \/ \E t \in Threads : CheckFlagReadCas(t)
    \/ \E t \in Threads : borrow_mut(t)
    \/ \E t \in Threads : try_borrow_mut(t)
    \/ \E t \in Threads : RefClone(t)
    \/ \E t \in Threads : RefDrop(t)
    \/ \E t \in Threads : RefMutDrop(t)

\* ------------------------------------------------------------------------
\* Entities: the generational entity registry
\* ------------------------------------------------------------------------

\* Entity::from_parts
Entity(index, generation) == [index |-> index, generation |-> generation]

\* Vec::resize(n, 0) of the generations; generations[i] of the code is g[i + 1]
Resize(g, n) == [i \in 1..n |-> IF i <= Len(g) THEN g[i] ELSE 0]

\* Entities::update_generations
update_generations(r, index) ==
    IF Len(r.generations) <= index
    THEN [r EXCEPT !.generations = Resize(r.generations, index + 1)]
    ELSE r

\* the generation of index is raised by one (u32::wrapping_add; the bounds
\* keep the generations far from the wrap)
RaiseGeneration(r, index) ==
    [r EXCEPT !.generations[index + 1] = @ + 1]

\* IndexCache::maintain
cache_maintain(r) == [r EXCEPT !.cache = SubSeq(r.cache, 1, r.len)]

\* IndexCache::extend
cache_extend(r, indices) ==
    LET c == cache_maintain(r).cache \o indices IN
    [r EXCEPT !.cache = c, !.len = Len(c)]

\* IndexCache::pop: the registry with the popped index, none being -1
cache_pop(r) ==
    LET c == cache_maintain(r).cache IN
    IF c = <<>>
    THEN [reg |-> [r EXCEPT !.cache = c, !.len = 0], index |-> -1]
    ELSE [reg |-> [r EXCEPT !.cache = SubSeq(c, 1, Len(c) - 1), !.len = Len(c) - 1],
          index |-> c[Len(c)]]

\* mutant of is_alive: the generation of the entity is not compared
is_alive_AnyGeneration(r, entity) ==
    IF entity.index < Len(r.generations)
    THEN entity.index \in r.raised \/ entity.index \in r.alive
    ELSE entity.index \in r.raised

\* Entities::is_alive
is_alive(r, entity) ==
    LET idx == entity.index
        gen == entity.generation
    IN
    IF idx < Len(r.generations)
    THEN IF idx \in r.raised
         THEN gen = r.generations[idx + 1] + 1
         ELSE idx \in r.alive /\ gen = r.generations[idx + 1]
    ELSE IF idx \in r.raised THEN gen = 0 ELSE FALSE

\* Entities::allocate: the registry after the call and the entity returned
allocate(r) ==
    LET popped == cache_pop(r)
        index == IF popped.index # -1 THEN popped.index ELSE r.max_index + 1
        r1 == IF popped.index # -1
              THEN popped.reg
              ELSE [popped.reg EXCEPT !.max_index = index]
        r2 == update_generations(r1, index)
        r3 == RaiseGeneration([r2 EXCEPT !.alive = @ \cup {index}], index)
    IN [reg |-> r3, entity |-> Entity(index, r3.generations[index + 1])]

\* the body of the loop of Entities::kill for one entity that is alive
kill_one(r, entity) ==
    LET index == entity.index
        r1 == update_generations(
                  [r EXCEPT !.alive = @ \ {index}, !.killed = @ \ {index}], index)
    IN IF index \in r1.raised
       THEN RaiseGeneration([r1 EXCEPT !.raised = @ \ {index}], index)
       ELSE r1

\* the loop of Entities::kill from position i on: the registry when the loop
\* ends, and the position of the entity that was not alive (0: none)
RECURSIVE kill_loop(_, _, _)
kill_loop(r, delete, i) ==
    IF i > Len(delete) THEN [reg |-> r, failed |-> 0]
    ELSE IF ~is_alive(r, delete[i]) THEN [reg |-> r, failed |-> i]
    ELSE kill_loop(kill_one(r, delete[i]), delete, i + 1)

\* Entities::kill: the registry after the call and the position of the
\* entity named by the error (0: the call returned Ok)
kill(r, delete) ==
    LET looped == kill_loop(r, delete, 1) IN
    IF looped.failed # 0
    THEN looped
    ELSE [reg |-> cache_extend(looped.reg, [i \in 1..Len(delete) |-> delete[i].index]),
          failed |-> 0]

\* Entities::delete: the registry after the call, and whether it returned Ok
delete(r, entity) ==
    IF ~is_alive(r, entity)
    THEN [reg |-> r, ok |-> FALSE]
    ELSE [reg |-> [r EXCEPT !.killed = @ \cup {entity.index}], ok |-> TRUE]

\* the first loop of Entities::maintain, over the raised indices
RECURSIVE RaiseAll(_, _)
RaiseAll(r, indices) ==
    IF indices = {} THEN r
    ELSE LET i == Min(indices) IN
         RaiseAll(RaiseGeneration([r EXCEPT !.alive = @ \cup {i}], i), indices \ {i})

\* Entities::maintain up to self.raised.clear()
maintain_raised(r) ==
    [RaiseAll(update_generations(r, r.max_index + 1), r.raised) EXCEPT !.raised = {}]

\* Entities::maintain: the registry after the call and the list returned
maintain(r) ==
    LET r1 == maintain_raised(r)
        indices == SortDedup(r1.killed)
        deleted == [i \in 1..Len(indices) |->
                      Entity(indices[i], r1.generations[indices[i] + 1])]
        r2 == [r1 EXCEPT !.alive = @ \ r1.killed]
    IN [reg |-> cache_extend(r2, indices), deleted |-> deleted]

InitEntities ==
    /\ ent = [alive |-> {}, raised |-> {}, killed |-> {}, cache |-> <<>>, len |-> 0,
              generations |-> <<>>, max_index |-> 0]
    /\ ecall = [t \in Threads |-> [pc |-> "idle", prev |-> 0, index |-> 0]]
    /\ ehist = [held |-> {}, created |-> {}, doomed |-> {}, pending |-> {},
                reported |-> {},
                phase |-> <<>>, maintains |-> 0, handed |-> 0, clean |-> FALSE,
                op |-> "none", ret |-> <<>>]

\* &mut self: no call on &self is in progress
Exclusive == \A t \in Threads : ecall[t].pc = "idle"

\* what the history keeps of a call: the operation, what it returned, and the
\* entities handed out, asked to be removed, and reported as removed
Recorded(h, op, ret) == [h EXCEPT !.op = op, !.ret = ret]

AllocateStep ==
    LET a == allocate(ent) IN
    /\ Exclusive
    /\ ehist.handed < MaxEntities
    /\ ent' = a.reg
    /\ ehist' = [Recorded(ehist, "allocate", a.entity) EXCEPT
                    !.held = @ \cup {a.entity}, !.handed = @ + 1,
                    !.phase = <<>>, !.clean = FALSE]
    /\ UNCHANGED <<ecall, dispVars, cellVars, stoVars, worldVars, joinVars>>

\* the slices a caller passes to kill: entities it has been handed
Batches ==
    UNION {[1..n -> ehist.held] : n \in 0..MaxBatch}

KillBatch(batch) ==
    LET k == kill(ent, batch)
        n == IF k.failed = 0 THEN Len(batch) ELSE k.failed - 1
    IN
    /\ Exclusive
    /\ ent' = k.reg
    /\ ehist' = [Recorded(ehist, "kill",
                          IF k.failed = 0 THEN <<>> ELSE <<batch[k.failed]>>)
                    EXCEPT !.doomed = @ \cup {batch[i] : i \in 1..n},
                           !.pending = @ \ {batch[i] : i \in 1..n},
                           !.phase = <<>>, !.clean = FALSE]
    /\ UNCHANGED <<ecall, dispVars, cellVars, stoVars, worldVars, joinVars>>

KillStep == \E batch \in Batches : KillBatch(batch)

DeleteEntity(entity) ==
    LET d == delete(ent, entity) IN
    /\ ent' = d.reg
    /\ ehist' = [Recorded(ehist, "delete", d.ok)
                    EXCEPT !.doomed = IF d.ok THEN @ \cup {entity} ELSE @,
                           !.pending = IF d.ok THEN @ \cup {entity} ELSE @,
                           !.clean = FALSE]
    /\ UNCHANGED <<ecall, dispVars, cellVars, stoVars, worldVars, joinVars>>

DeleteStep == \E entity \in ehist.held : DeleteEntity(entity)

MaintainStep ==
    LET m == maintain(ent) IN
    /\ Exclusive
    /\ ehist.maintains < MaxMaintains
    /\ ent' = m.reg
    /\ ehist' = [Recorded(ehist, "maintain", m.deleted) EXCEPT
                    !.reported = @ \cup Range(m.deleted), !.maintains = @ + 1,
                    !.pending = {},
                    !.phase = <<>>, !.clean = TRUE]
    /\ UNCHANGED <<ecall, dispVars, cellVars, stoVars, worldVars, joinVars>>

\* Entities::create, IndexCache::pop_atomic, atomic_decrement: the load of len
CreateLoadLen(t) ==
    /\ ecall[t].pc = "idle"
    /\ ehist.handed < MaxEntities
    /\ ecall' = [ecall EXCEPT ![t].prev = ent.len,
                              ![t].pc = IF ent.len # 0 THEN "dec_cas" ELSE "inc_load"]
    /\ ehist' = [ehist EXCEPT !.handed = @ + 1, !.clean = FALSE]
    /\ UNCHANGED <<ent, dispVars, cellVars, stoVars, worldVars, joinVars>>

\* atomic_decrement: compare_exchange_weak(prev, prev - 1) on len; on success
\* pop_atomic reads cache[x - 1]
CreateDecrement(t) ==
    /\ ecall[t].pc = "dec_cas"
    /\ IF ent.len = ecall[t].prev
       THEN /\ ent' = [ent EXCEPT !.len = ecall[t].prev - 1]
            /\ ecall' = [ecall EXCEPT ![t].pc = "raise",
                                      ![t].index = ent.cache[ecall[t].prev],
                                      ![t].prev = 0]
       ELSE /\ ecall' = [ecall EXCEPT ![t].prev = ent.len,
                                      ![t].pc = IF ent.len # 0 THEN "dec_cas"
                                                ELSE "inc_load"]
            /\ UNCHANGED ent
    /\ UNCHANGED <<ehist, dispVars, cellVars, stoVars, worldVars, joinVars>>

\* atomic_increment: the load of max_index
CreateLoadMax(t) ==
    /\ ecall[t].pc = "inc_load"
    /\ ecall' = [ecall EXCEPT ![t].prev = ent.max_index, ![t].pc = "inc_cas"]
    /\ UNCHANGED <<ent, ehist, dispVars, cellVars, stoVars, worldVars, joinVars>>

\* atomic_increment returns Some(x), x being what compare_exchange_weak read
IncrementResult(prev) == prev

\* atomic_increment: compare_exchange_weak(prev, prev + 1) on max_index
CreateIncrement(t) ==
    /\ ecall[t].pc = "inc_cas"
    /\ IF ent.max_index = ecall[t].prev
       THEN /\ ent' = [ent EXCEPT !.max_index = ecall[t].prev + 1]
            /\ ecall' = [ecall EXCEPT ![t].pc = "raise",
                                      ![t].index = IncrementResult(ecall[t].prev),
                                      ![t].prev = 0]
       ELSE /\ ecall' = [ecall EXCEPT ![t].prev = ent.max_index]
            /\ UNCHANGED ent
    /\ UNCHANGED <<ehist, dispVars, cellVars, stoVars, worldVars, joinVars>>

\* the generation Entities::create gives the entity
CreatedGeneration(r, index) ==
    IF index < Len(r.generations) THEN r.generations[index + 1] + 1 ELSE 0

\* Entities::create: raised.add_atomic(index), and the entity is returned
CreateRaise(t) ==
    LET index == ecall[t].index
        entity == Entity(index, CreatedGeneration(ent, index))
    IN
    /\ ecall[t].pc = "raise"
    /\ ent' = [ent EXCEPT !.raised = @ \cup {index}]
    /\ ecall' = [ecall EXCEPT ![t] = [pc |-> "idle", prev |-> 0, index |-> 0]]
    /\ ehist' = [Recorded(ehist, "create", entity) EXCEPT
                    !.held = @ \cup {entity}, !.created = @ \cup {entity},
                    !.phase = Append(@, entity)]
    /\ UNCHANGED <<dispVars, cellVars, stoVars, worldVars, joinVars>>

\* allocate and kill only
NextAllocate ==
    \/ AllocateStep
    \/ KillStep

NextEntities ==
    \/ AllocateStep
    \/ KillStep
    \/ DeleteStep
    \/ MaintainStep
    \/ \E t \in Threads : CreateLoadLen(t)
    \/ \E t \in Threads : CreateDecrement(t)
    \/ \E t \in Threads : CreateLoadMax(t)
    \/ \E t \in Threads : CreateIncrement(t)
    \/ \E t \in Threads : CreateRaise(t)

\* ------------------------------------------------------------------------
\* Component storages: MaskedStorage over the backing Storage implementations
\* ------------------------------------------------------------------------

\* the Storage implementations
Kinds == {"VecStorage", "DenseVecStorage", "HashMapStorage", "BTreeStorage"}

\* component values
Values == {"x", "y"}

Indices == 0..(NumIndices - 1)

\* MaskedStorage::new over the Default of the Storage. A slot of the Vec of
\* VecStorage is "uninit", and one of data_id is -1, while nothing was
\* written to it.
NewStorage(kind) ==
    [kind |-> kind, mask |-> {}, vec |-> <<>>, data |-> <<>>, entity_id |-> <<>>,
     data_id |-> <<>>, map |-> <<>>, ub |-> FALSE]

\* Vec::set_len(n) on a shorter Vec: the new slots are not initialised
Grown(v, n, uninit) == [k \in 1..(IF n > Len(v) THEN n ELSE Len(v)) |->
                          IF k <= Len(v) THEN v[k] ELSE uninit]

\* mutant of swap_remove: the last element is dropped and nothing is moved
\* into the gap
swap_remove_Truncate(v, k) == SubSeq(v, 1, Len(v) - 1)

\* Vec::swap_remove(k), k counted from 0
swap_remove(v, k) ==
    [j \in 1..(Len(v) - 1) |-> IF j = k + 1 THEN v[Len(v)] ELSE v[j]]

\* the position in data that data_id gives for index; -1 if the read is of
\* an uninitialised slot or beyond the Vec
DataId(s, index) ==
    IF index + 1 <= Len(s.data_id) /\ s.data_id[index + 1] # -1
       /\ s.data_id[index + 1] < Len(s.data)
    THEN s.data_id[index + 1] ELSE -1

\* Storage::get: the value read; "undefined" for a read that the
\* implementation does not define (uninitialised slot, get_unchecked beyond
\* the length) and "panic" for a missing key of a map
storage_get(s, index) ==
    CASE s.kind = "VecStorage" ->
            IF index + 1 <= Len(s.vec) /\ s.vec[index + 1] # "uninit"
            THEN s.vec[index + 1] ELSE "undefined"
      [] s.kind = "DenseVecStorage" ->
            IF DataId(s, index) # -1 THEN s.data[DataId(s, index) + 1] ELSE "undefined"
      [] OTHER ->
            IF index \in DOMAIN s.map THEN s.map[index] ELSE "panic"

\* a write through Storage::get_mut
storage_set(s, index, value) ==
    CASE s.kind = "VecStorage" ->
            IF index + 1 <= Len(s.vec)
            THEN [s EXCEPT !.vec[index + 1] = value] ELSE [s EXCEPT !.ub = TRUE]
      [] s.kind = "DenseVecStorage" ->
            IF DataId(s, index) # -1
            THEN [s EXCEPT !.data[DataId(s, index) + 1] = value]
            ELSE [s EXCEPT !.ub = TRUE]
      [] OTHER ->
            IF index \in DOMAIN s.map
            THEN [s EXCEPT !.map[index] = value] ELSE [s EXCEPT !.ub = TRUE]

\* Storage::insert
storage_insert(s, index, value) ==
    CASE s.kind = "VecStorage" ->
            [s EXCEPT !.vec = [Grown(s.vec, index + 1, "uninit") EXCEPT ![index + 1] = value]]
      [] s.kind = "DenseVecStorage" ->
            [s EXCEPT !.data_id = [Grown(s.data_id, index + 1, -1)
                                      EXCEPT ![index + 1] = Len(s.data)],
                      !.entity_id = Append(s.entity_id, index),
                      !.data = Append(s.data, value)]
      [] OTHER ->
            [s EXCEPT !.map = [k \in DOMAIN s.map \cup {index} |->
                                 IF k = index THEN value ELSE s.map[k]]]

\* mutant of DenseRemove: data_id of the entity moved into the gap is not
\* redirected
DenseRemove_NoRedirect(s, index) ==
    LET at == DataId(s, index) IN
    [s EXCEPT !.entity_id = swap_remove(s.entity_id, at),
              !.data = swap_remove(s.data, at)]

\* Storage::remove of DenseVecStorage
DenseRemove(s, index) ==
    LET at == DataId(s, index)
        moved == s.entity_id[Len(s.entity_id)]
    IN [s EXCEPT !.data_id[moved + 1] = at,
                 !.entity_id = swap_remove(s.entity_id, at),
                 !.data = swap_remove(s.data, at)]

\* Storage::remove: the storage after the call; what it returns is what
\* storage_get reads before it. ptr::read leaves the slot of a VecStorage
\* moved out.
storage_remove(s, index) ==
    IF storage_get(s, index) \in {"undefined", "panic"} THEN [s EXCEPT !.ub = TRUE]
    ELSE CASE s.kind = "VecStorage" -> [s EXCEPT !.vec[index + 1] = "uninit"]
           [] s.kind = "DenseVecStorage" -> DenseRemove(s, index)
           [] OTHER -> [s EXCEPT !.map = [k \in DOMAIN s.map \ {index} |-> s.map[k]]]

\* Storage::clean: VecStorage drops the masked slots and sets the length to
\* 0; the other implementations do nothing
storage_clean(s) ==
    IF s.kind = "VecStorage"
    THEN [s EXCEPT !.vec = <<>>,
                   !.ub = @ \/ \E i \in s.mask : storage_get(s, i) = "undefined"]
    ELSE s

\* Option<T> as a list: None is <<>>, Some(v) is <<v>>
None == <<>>

Some(v) == <<v>>

\* MaskedStorage::insert: the storage after the call and what it returns
masked_insert(s, index, component) ==
    IF index \in s.mask
    THEN [sto |-> storage_set(s, index, component), ret |-> Some(storage_get(s, index))]
    ELSE [sto |-> storage_insert([s EXCEPT !.mask = @ \cup {index}], index, component),
          ret |-> None]

\* MaskedStorage::clear
masked_clear(s) == [storage_clean(s) EXCEPT !.mask = {}]

\* MaskedStorage::remove
masked_remove(s, index) ==
    IF index \in s.mask
    THEN [sto |-> storage_remove([s EXCEPT !.mask = @ \ {index}], index),
          ret |-> Some(storage_get(s, index))]
    ELSE [sto |-> s, ret |-> None]

\* MaskedStorage::drop, over the default Storage::drop
masked_drop(s, index) ==
    IF index \in s.mask
    THEN storage_remove([s EXCEPT !.mask = @ \ {index}], index)
    ELSE s

\* the partial map after index is taken out
Without(f, index) == [k \in DOMAIN f \ {index} |-> f[k]]

\* the partial map after value is put at index
With(f, index, value) == [k \in DOMAIN f \cup {index} |-> IF k = index THEN value ELSE f[k]]

InitStorage(kinds) ==
    /\ sto \in {NewStorage(kind) : kind \in kinds}
    /\ shist = [map |-> <<>>, op |-> "none", ret |-> None]

MaskedInsert(index, component) ==
    LET r == masked_insert(sto, index, component) IN
    /\ sto' = r.sto
    /\ shist' = [shist EXCEPT !.map = With(@, index, component),
                              !.op = "insert", !.ret = r.ret]
    /\ UNCHANGED <<dispVars, cellVars, entVars, worldVars, joinVars>>

MaskedRemove(index) ==
    LET r == masked_remove(sto, index) IN
    /\ sto' = r.sto
    /\ shist' = [shist EXCEPT !.map = Without(@, index), !.op = "remove", !.ret = r.ret]
    /\ UNCHANGED <<dispVars, cellVars, entVars, worldVars, joinVars>>

MaskedDrop(index) ==
    /\ sto' = masked_drop(sto, index)
    /\ shist' = [shist EXCEPT !.map = Without(@, index), !.op = "drop", !.ret = None]
    /\ UNCHANGED <<dispVars, cellVars, entVars, worldVars, joinVars>>

MaskedClear ==
    /\ Len(sto.data) <= MaxLeaked
    /\ sto' = masked_clear(sto)
    /\ shist' = [shist EXCEPT !.map = <<>>, !.op = "clear", !.ret = None]
    /\ UNCHANGED <<dispVars, cellVars, entVars, worldVars, joinVars>>

NextStorage ==
    \/ \E index \in Indices, component \in Values : MaskedInsert(index, component)
    \/ \E index \in Indices : MaskedRemove(index)
    \/ \E index \in Indices : MaskedDrop(index)
    \/ MaskedClear

\* ------------------------------------------------------------------------
\* World: the Entities, the registered component storages, the Lazy queue
\* and the EntityBuilder
\* ------------------------------------------------------------------------

\* the component types registered, and the Storage of each (the example of
\* entity/builder.rs: Health in a HashMapStorage, Pos in a DenseVecStorage)
Components == {"Health", "Pos"}

StorageOf(name) == IF name = "Health" THEN "HashMapStorage" ELSE "DenseVecStorage"

\* the component values of each type
ValuesOf(name) == IF name = "Health" THEN {"x"} ELSE Values

\* Entities::create when no other call runs between its steps
create(r) ==
    LET index == IF r.len # 0 THEN r.cache[r.len] ELSE IncrementResult(r.max_index)
        r1 == IF r.len # 0
              THEN [r EXCEPT !.len = @ - 1]
              ELSE [r EXCEPT !.max_index = @ + 1]
    IN [reg |-> [r1 EXCEPT !.raised = @ \cup {index}],
        entity |-> Entity(index, CreatedGeneration(r, index))]

\* Result<Option<T>, Error> of StorageWrapper::insert
Ok(v) == [ok |-> v]

EntityIsNotAlive(entity) == [err |-> "EntityIsNotAlive", entity |-> entity]

\* StorageWrapper::insert: the storage after the call and what it returns
wrapper_insert(r, s, entity, component) ==
    IF ~is_alive(r, entity)
    THEN [sto |-> s, ret |-> EntityIsNotAlive(entity)]
    ELSE LET m == masked_insert(s, entity.index, component) IN
         [sto |-> m.sto, ret |-> Ok(m.ret)]

\* StorageWrapper::remove
wrapper_remove(r, s, entity) ==
    IF is_alive(r, entity)
    THEN masked_remove(s, entity.index)
    ELSE [sto |-> s, ret |-> None]

\* StorageWrapper::contains
wrapper_contains(r, s, entity) ==
    entity.index \in s.mask /\ is_alive(r, entity)

\* mutant of wrapper_get: the entity is not checked
wrapper_get_MaskOnly(r, s, entity) ==
    IF entity.index \in s.mask
    THEN Some(storage_get(s, entity.index))
    ELSE None

\* StorageWrapper::get
wrapper_get(r, s, entity) ==
    IF entity.index \in s.mask /\ is_alive(r, entity)
    THEN Some(storage_get(s, entity.index))
    ELSE None

\* StorageWrapper::get_mut, the component behind the reference being read
wrapper_get_mut(r, s, entity) ==
    IF entity.index \in s.mask /\ is_alive(r, entity)
    THEN Some(storage_get(s, entity.index))
    ELSE None

\* a closure pushed by Lazy::insert or Lazy::remove
LazyInsertUpdate(entity, name, component) ==
    [op |-> "insert", entity |-> entity, name |-> name, component |-> component]

LazyRemoveUpdate(entity, name) ==
    [op |-> "remove", entity |-> entity, name |-> name, component |-> "none"]

\* a closure pushed by Lazy::exec that writes its start to a log kept in the
\* World, pushes the closures of then with Lazy::exec, writing each push to
\* the log, and writes its end
LazyClosure(id, then) == [op |-> "exec", id |-> id, then |-> then]

LogEntry(ev, id) == [ev |-> ev, id |-> id]

\* the body of such a closure
run_closure(w, c) ==
    [w EXCEPT !.log = @ \o <<LogEntry("start", c.id)>>
                        \o [k \in 1..Len(c.then) |-> LogEntry("push", c.then[k].id)]
                        \o <<LogEntry("end", c.id)>>,
              !.queue = @ \o c.then]

\* the closure run on the World
run_update(w, update) ==
    LET s == w.storages[update.name] IN
    IF update.op = "exec" THEN run_closure(w, update)
    ELSE IF update.op = "insert"
    THEN [w EXCEPT !.storages[update.name] =
             wrapper_insert(w.entities, s, update.entity, update.component).sto]
    ELSE [w EXCEPT !.storages[update.name] =
             wrapper_remove(w.entities, s, update.entity).sto]

\* mutant of lazy_maintain: the update pushed last is run first
RECURSIVE lazy_maintain_LastFirst(_)
lazy_maintain_LastFirst(w) ==
    IF w.queue = <<>> THEN w
    ELSE lazy_maintain_LastFirst(
             run_update([w EXCEPT !.queue = SubSeq(@, 1, Len(@) - 1)],
                        w.queue[Len(w.queue)]))

\* Lazy::maintain: the queue is popped from the front until it is empty
RECURSIVE lazy_maintain(_)
lazy_maintain(w) ==
    IF w.queue = <<>> THEN w
    ELSE lazy_maintain(run_update([w EXCEPT !.queue = Tail(@)], Head(w.queue)))

\* AnyStorage::drop of a MaskedStorage, from position i of the list on
RECURSIVE any_storage_drop(_, _, _)
any_storage_drop(s, entities, i) ==
    IF i > Len(entities) THEN s
    ELSE any_storage_drop(masked_drop(s, entities[i].index), entities, i + 1)

\* World::maintain: the world after the call, the list Entities::maintain
\* returned, and the storages as the Lazy queue left them
world_maintain(w) ==
    LET w1 == lazy_maintain(w)
        m == maintain(w1.entities)
        w2 == [w1 EXCEPT !.entities = m.reg]
    IN [world |-> IF m.deleted = <<>> THEN w2
                  ELSE [w2 EXCEPT !.storages =
                           [n \in Components |-> any_storage_drop(@[n], m.deleted, 1)]],
        deleted |-> m.deleted,
        drained |-> w1.storages]

\* no EntityBuilder: Option as a list
NoBuilder == <<>>

InitWorld ==
    /\ wld = [entities |-> [alive |-> {}, raised |-> {}, killed |-> {}, cache |-> <<>>,
                            len |-> 0, generations |-> <<>>, max_index |-> 0],
              storages |-> [n \in Components |-> NewStorage(StorageOf(n))],
              queue |-> <<>>,
              log |-> <<>>,
              builder |-> NoBuilder]
    /\ whist = [held |-> {}, live |-> {}, pending |-> {}, handed |-> 0, maintains |-> 0,
                execs |-> 0,
                with |-> <<>>, op |-> "none", arg |-> <<>>, ret |-> <<>>]

\* what the history keeps of a call: the operation, its arguments and what it
\* returned
Called(h, op, arg, ret) == [h EXCEPT !.op = op, !.arg = arg, !.ret = ret]

\* World::create_entity, EntityBuilder::new
CreateEntity ==
    LET a == allocate(wld.entities) IN
    /\ wld.builder = NoBuilder
    /\ whist.handed < MaxHanded
    /\ wld' = [wld EXCEPT !.entities = a.reg,
                          !.builder = <<[entity |-> a.entity, built |-> FALSE]>>]
    /\ whist' = [Called(whist, "create_entity", <<>>, a.entity) EXCEPT
                    !.held = @ \cup {a.entity}, !.live = @ \cup {a.entity},
                    !.handed = @ + 1]
    /\ UNCHANGED <<dispVars, cellVars, entVars, stoVars, joinVars>>

\* EntityBuilder::with; unwrap panics on Err, which ends the program
BuilderWith(name, component) ==
    LET b == wld.builder[1]
        i == wrapper_insert(wld.entities, wld.storages[name], b.entity, component)
    IN
    /\ wld.builder # NoBuilder
    /\ "ok" \in DOMAIN i.ret
    /\ wld' = [wld EXCEPT !.storages[name] = i.sto]
    /\ whist' = [Called(whist, "with", <<b.entity>>, <<>>) EXCEPT
                    !.with = With(@, name, component)]
    /\ UNCHANGED <<dispVars, cellVars, entVars, stoVars, joinVars>>

\* EntityBuilder::build, and the drop of the builder it consumed
BuilderBuild ==
    /\ wld.builder # NoBuilder
    /\ wld' = [wld EXCEPT !.builder = NoBuilder]
    /\ whist' = [Called(whist, "build", <<>>, wld.builder[1].entity) EXCEPT
                    !.with = <<>>]
    /\ UNCHANGED <<dispVars, cellVars, entVars, stoVars, joinVars>>

\* Drop for EntityBuilder when build was not called
BuilderDrop ==
    LET b == wld.builder[1]
        d == delete(wld.entities, b.entity)
    IN
    /\ wld.builder # NoBuilder
    /\ d.ok
    /\ wld' = [wld EXCEPT !.entities = d.reg, !.builder = NoBuilder]
    /\ whist' = [Called(whist, "drop", <<>>, <<>>) EXCEPT
                    !.pending = @ \cup {b.entity}, !.with = <<>>]
    /\ UNCHANGED <<dispVars, cellVars, entVars, stoVars, joinVars>>

\* Lazy::create_entity
LazyCreateEntity ==
    LET c == create(wld.entities) IN
    /\ wld.builder = NoBuilder
    /\ whist.handed < MaxHanded
    /\ wld' = [wld EXCEPT !.entities = c.reg]
    /\ whist' = [Called(whist, "create", <<>>, c.entity) EXCEPT
                    !.held = @ \cup {c.entity}, !.live = @ \cup {c.entity},
                    !.handed = @ + 1]
    /\ UNCHANGED <<dispVars, cellVars, entVars, stoVars, joinVars>>

\* Lazy::insert, Lazy::remove, LazyBuilder::with: Lazy::exec pushes the closure
LazyExec(update) ==
    /\ wld.builder = NoBuilder
    /\ Len(wld.queue) < MaxQueue
    /\ wld' = [wld EXCEPT !.queue = Append(@, update)]
    /\ whist' = Called(whist, "exec", <<>>, <<>>)
    /\ UNCHANGED <<dispVars, cellVars, entVars, stoVars, joinVars>>

\* what a closure pushes when it runs: a list of the same, down to closures
\* that push nothing
ThenShapes ==
    LET none == {<<>>}
        some == none \cup [1..1 -> none] \cup [1..2 -> none]
    IN none \cup [1..1 -> some] \cup [1..2 -> some]

\* the closure with an id, and below it the closures of a shape with ids made
\* of the id and their place
RECURSIVE ClosureOf(_, _)
ClosureOf(id, shape) ==
    LazyClosure(id, [k \in 1..Len(shape) |-> ClosureOf(10 * id + k, shape[k])])

\* Lazy::exec of a closure that logs, the push being written to the log
LazyExecClosure(shape) ==
    /\ wld.builder = NoBuilder
    /\ whist.execs < MaxClosures
    /\ wld' = [wld EXCEPT !.queue = Append(@, ClosureOf(whist.execs + 1, shape)),
                          !.log = Append(@, LogEntry("push", whist.execs + 1))]
    /\ whist' = [Called(whist, "exec", <<>>, <<>>) EXCEPT !.execs = @ + 1]
    /\ UNCHANGED <<dispVars, cellVars, entVars, stoVars, joinVars>>

\* StorageWrapper::insert on world.component_mut
WrapperInsert(entity, name, component) ==
    LET i == wrapper_insert(wld.entities, wld.storages[name], entity, component) IN
    /\ wld.builder = NoBuilder
    /\ wld' = [wld EXCEPT !.storages[name] = i.sto]
    /\ whist' = Called(whist, "insert", <<>>, i.ret)
    /\ UNCHANGED <<dispVars, cellVars, entVars, stoVars, joinVars>>

\* StorageWrapper::remove on world.component_mut
WrapperRemove(entity, name) ==
    LET r == wrapper_remove(wld.entities, wld.storages[name], entity) IN
    /\ wld.builder = NoBuilder
    /\ wld' = [wld EXCEPT !.storages[name] = r.sto]
    /\ whist' = Called(whist, "remove", <<>>, <<>>)
    /\ UNCHANGED <<dispVars, cellVars, entVars, stoVars, joinVars>>

\* Entities::delete on world.entities
WorldDelete(entity) ==
    LET d == delete(wld.entities, entity) IN
    /\ wld.builder = NoBuilder
    /\ wld' = [wld EXCEPT !.entities = d.reg]
    /\ whist' = [Called(whist, "delete", <<>>, <<>>) EXCEPT
                    !.pending = IF d.ok THEN @ \cup {entity} ELSE @]
    /\ UNCHANGED <<dispVars, cellVars, entVars, stoVars, joinVars>>

\* Entities::kill of one entity on world.entities_mut
WorldKill(entity) ==
    LET k == kill(wld.entities, <<entity>>) IN
    /\ wld.builder = NoBuilder
    /\ wld' = [wld EXCEPT !.entities = k.reg]
    /\ whist' = [Called(whist, "kill", <<>>, <<>>) EXCEPT
                    !.live = IF k.failed = 0 THEN @ \ {entity} ELSE @,
                    !.pending = IF k.failed = 0 THEN @ \ {entity} ELSE @]
    /\ UNCHANGED <<dispVars, cellVars, entVars, stoVars, joinVars>>

\* World::maintain
WorldMaintain ==
    LET m == world_maintain(wld) IN
    /\ wld.builder = NoBuilder
    /\ whist.maintains < MaxPasses
    /\ wld' = m.world
    /\ whist' = [Called(whist, "maintain", m.drained, m.deleted) EXCEPT
                    !.live = @ \ whist.pending, !.pending = {},
                    !.maintains = @ + 1]
    /\ UNCHANGED <<dispVars, cellVars, entVars, stoVars, joinVars>>

NextWorld ==
    \/ CreateEntity
    \/ \E name \in Components : \E component \in ValuesOf(name) : BuilderWith(name, component)
    \/ BuilderBuild
    \/ BuilderDrop
    \/ LazyCreateEntity
    \/ \E entity \in whist.held : LazyExec(LazyInsertUpdate(entity, "Health", "x"))
    \/ \E entity \in whist.held : LazyExec(LazyRemoveUpdate(entity, "Pos"))
    \/ \E entity \in whist.held, name \in Components : \E component \in ValuesOf(name) :
           WrapperInsert(entity, name, component)
    \/ \E entity \in whist.held, name \in Components : WrapperRemove(entity, name)
    \/ \E entity \in whist.held : WorldDelete(entity)
    \/ WorldMaintain

NextLazy ==
    \/ \E shape \in ThenShapes : LazyExecClosure(shape)
    \/ WorldMaintain

\* ------------------------------------------------------------------------
\* Join: the iterator over the indices every joined source has
\* ------------------------------------------------------------------------

\* the indices a joined mask is drawn from
JoinIndices == 0..MaxIndex

\* the sizes of the tuples joined (the code has them up to 16)
Arities == {1, 2, 3}

\* BitSetAnd: contains is the contains of both
BitSetAnd(a, b) == {i \in a : i \in b}

\* mutant of bit_and: the right half of the tuple is left out
RECURSIVE bit_and_LeftOnly(_)
bit_and_LeftOnly(masks) ==
    IF Len(masks) = 1 THEN masks[1]
    ELSE bit_and_LeftOnly(SubSeq(masks, 1, Len(masks) \div 2))

\* BitAnd::and of a tuple of masks: Split halves it, the left half being the
\* shorter one, down to the tuples of one mask
RECURSIVE bit_and(_)
bit_and(masks) ==
    IF Len(masks) = 1 THEN masks[1]
    ELSE BitSetAnd(bit_and(SubSeq(masks, 1, Len(masks) \div 2)),
                   bit_and(SubSeq(masks, Len(masks) \div 2 + 1, Len(masks))))

\* BitSetAll: contains is true of every index
BitSetAll == JoinIndices

\* Join::maybe of a storage: the MaybeJoin around it
maybe(j) == [maybe |-> j]

\* whether a source, or the value it opens to, is a MaybeJoin
IsMaybe(j) == "maybe" \in DOMAIN j

\* Join::open of a storage: its mask, and the storage
storage_open(s) == [mask |-> s.mask, value |-> s]

\* mutant of maybe_open: the mask of the wrapped source is the mask
maybe_open_Constrained(j) ==
    LET o == storage_open(j.maybe) IN
    [mask |-> o.mask, value |-> [maybe |-> <<o.mask, o.value>>]]

\* Join::open of a MaybeJoin: every index, and the mask and the value of the
\* source it wraps
maybe_open(j) ==
    LET o == storage_open(j.maybe) IN
    [mask |-> BitSetAll, value |-> [maybe |-> <<o.mask, o.value>>]]

\* Join::get of a MaybeJoin
maybe_get(v, index) ==
    IF index \in v.maybe[1] THEN Some(storage_get(v.maybe[2], index)) ELSE None

\* Join::open of a member of a tuple
source_open(j) == IF IsMaybe(j) THEN maybe_open(j) ELSE storage_open(j)

\* Join::get of a member of a tuple
source_get(v, index) == IF IsMaybe(v) THEN maybe_get(v, index) ELSE storage_get(v, index)

\* Join::is_unconstrained of a member: true of MaybeJoin, false by default
is_unconstrained(j) == IsMaybe(j)

\* Join::is_unconstrained of a tuple: starts true, and is and-ed with every
\* member in turn
RECURSIVE tuple_is_unconstrained(_)
tuple_is_unconstrained(sources) ==
    IF sources = <<>> THEN TRUE
    ELSE tuple_is_unconstrained(SubSeq(sources, 1, Len(sources) - 1))
         /\ is_unconstrained(sources[Len(sources)])

\* Join::open of a tuple: the joined mask, and the values of the sources
tuple_open(sources) ==
    [mask |-> bit_and([k \in 1..Len(sources) |-> source_open(sources[k]).mask]),
     values |-> [k \in 1..Len(sources) |-> source_open(sources[k]).value]]

\* Join::get of a tuple: the value of every source at the index
tuple_get(values, index) ==
    [k \in 1..Len(values) |-> source_get(values[k], index)]

\* JoinIter::new: a warning is logged for an unconstrained join; keys is the
\* BitIter over the joined mask, which walks the indices upwards from 0
JoinIter_new(sources) ==
    LET opened == tuple_open(sources) IN
    [keys |-> [set |-> opened.mask, from |-> 0], values |-> opened.values,
     warned |-> tuple_is_unconstrained(sources), done |-> FALSE]

\* BitIter::next: the lowest index of the set not walked yet, -1 for None
bit_iter_next(keys) ==
    IF \E i \in keys.set : i >= keys.from
    THEN Min({i \in keys.set : i >= keys.from})
    ELSE -1

\* JoinIter::get
join_get(j, r, entity) ==
    IF entity.index \in j.keys.set /\ is_alive(r, entity)
    THEN Some(tuple_get(j.values, entity.index))
    ELSE None

\* the component a source has at an index
ValueAt(k, index) == IF (k + index) % 2 = 0 THEN "x" ELSE "y"

\* the Storage of the k-th source
KindAt(k) ==
    IF k = 1 THEN "VecStorage" ELSE IF k = 2 THEN "DenseVecStorage" ELSE "HashMapStorage"

\* a MaskedStorage with the components of the k-th source at the indices of
\* mask, inserted from the highest index down
RECURSIVE Source(_, _)
Source(k, mask) ==
    IF mask = {} THEN NewStorage(KindAt(k))
    ELSE LET i == Min(mask) IN
         masked_insert(Source(k, mask \ {i}), i, ValueAt(k, i)).sto

\* the tuples of sources joined: every choice of masks for every arity
MaskTuples == UNION {[1..n -> SUBSET JoinIndices] : n \in Arities}

InitJoin(tuples) ==
    /\ jiter \in {JoinIter_new([k \in 1..Len(masks) |-> Source(k, masks[k])]) :
                     masks \in tuples}
    /\ joined = <<>>

\* the sizes of the tuples joined with MaybeJoin members
MaybeArities == {1, 2}

\* the tuples of sources joined where members may be wrapped by maybe(): every
\* choice of masks, and of the members wrapped
MaybeTuples ==
    UNION {[1..n -> [mask : SUBSET JoinIndices, maybe : BOOLEAN]] : n \in MaybeArities}

\* the k-th source of such a tuple
MaybeSource(k, m) == IF m.maybe THEN maybe(Source(k, m.mask)) ELSE Source(k, m.mask)

InitMaybe ==
    /\ jiter \in {JoinIter_new([k \in 1..Len(t) |-> MaybeSource(k, t[k])]) : t \in MaybeTuples}
    /\ joined = <<>>

\* Iterator::next of JoinIter; the index is kept with the item yielded
JoinNext ==
    LET idx == bit_iter_next(jiter.keys) IN
    /\ ~jiter.done
    /\ IF idx = -1
       THEN /\ jiter' = [jiter EXCEPT !.done = TRUE]
            /\ UNCHANGED joined
       ELSE /\ jiter' = [jiter EXCEPT !.keys.from = idx + 1]
            /\ joined' = Append(joined, [index |-> idx,
                                         item |-> tuple_get(jiter.values, idx)])
    /\ UNCHANGED <<dispVars, cellVars, entVars, stoVars, worldVars, split>>

NextJoin == JoinNext

\* ------------------------------------------------------------------------
\* BitIter: the key iterator of a parallel join, and its split
\* ------------------------------------------------------------------------

\* LAYERS
LAYERS == 4

\* BITS, of a target with pointers of 64 bits
BITS == 6

\* the number of bits of a usize; a usize used as a mask is the set of the
\* positions of its bits
WordBits == 2 ^ BITS

\* a | b
RECURSIVE BitOr(_, _)
BitOr(a, b) ==
    IF a = 0 THEN b
    ELSE IF b = 0 THEN a
    ELSE (IF a % 2 = 1 \/ b % 2 = 1 THEN 1 ELSE 0) + 2 * BitOr(a \div 2, b \div 2)

\* BitSetLike::get_from_layer of a set of indices: the word idx of a layer
\* has bit b when the set has an index i with i >> (BITS * layer) = (idx << BITS) | b
get_from_layer(set, layer, idx) ==
    {(i \div (WordBits ^ layer)) % WordBits :
        i \in {j \in set : j \div (WordBits ^ (layer + 1)) = idx}}

\* BitIter::new; masks[level + 1] and prefix[level + 1] are masks[level] and
\* prefix[level] of the code
BitIter_new(set) ==
    [set |-> set,
     masks |-> <<{}, {}, {}, get_from_layer(set, LAYERS - 1, 0)>>,
     prefix |-> <<0, 0, 0>>]

\* self.prefix.get(level).cloned().unwrap_or(0)
level_prefix(it, level) == IF level < LAYERS - 1 THEN it.prefix[level + 1] ELSE 0

\* BitIter::handle_next
handle_next(it, level) ==
    IF it.masks[level + 1] = {}
    THEN [state |-> "Empty", it |-> it, value |-> 0]
    ELSE LET first_bit == Min(it.masks[level + 1])
             it1 == [it EXCEPT !.masks[level + 1] = @ \ {first_bit}]
             idx == BitOr(level_prefix(it, level), first_bit)
         IN IF level = 0
            THEN [state |-> "Value", it |-> it1, value |-> idx]
            ELSE [state |-> "Continue",
                  it |-> [it1 EXCEPT !.masks[level] = get_from_layer(it.set, level - 1, idx),
                                     !.prefix[level] = idx * WordBits],
                  value |-> 0]

\* Iterator::next of BitIter, from a level of the loop on: the iterator
\* after the call and the value returned, -1 for None
RECURSIVE BitIter_next(_, _)
BitIter_next(it, level) ==
    IF level = LAYERS THEN [it |-> it, value |-> -1]
    ELSE LET h == handle_next(it, level) IN
         IF h.state = "Value" THEN [it |-> h.it, value |-> h.value]
         ELSE IF h.state = "Continue" THEN BitIter_next(h.it, 0)
         ELSE BitIter_next(it, level + 1)

\* the values the iterator yields until it returns None
RECURSIVE Yielded(_)
Yielded(it) ==
    LET n == BitIter_next(it, 0) IN
    IF n.value = -1 THEN <<>> ELSE <<n.value>> \o Yielded(n.it)

\* the number of bits of n at the positions lo .. lo + width - 1: what the
\* field at lo of the partial sums a, b, c, d, e of bit_average holds
Ones(n, lo, width) == Cardinality({b \in n : lo <= b /\ b < lo + width})

\* the closure descend of bit_average, called for the partial sums from
\* child_stride down to 1, and the end of bit_average
RECURSIVE descend(_, _, _, _, _)
descend(n, cur, target, result, child_stride) ==
    LET down == cur < target
        result1 == IF down THEN result - 2 * child_stride ELSE result
        target1 == IF down THEN target - cur ELSE target
        cur1 == Ones(n, result1 - child_stride, child_stride)
    IN IF child_stride = 1
       THEN (IF cur1 < target1 THEN result1 - 1 ELSE result1) - 1
       ELSE descend(n, cur1, target1, result1, child_stride \div 2)

\* bit_average: -1 for None
bit_average(n) ==
    LET count == Cardinality(n) IN
    IF count <= 1 THEN -1
    ELSE descend(n, Ones(n, WordBits \div 2, WordBits \div 2), count \div 2,
                 WordBits, WordBits \div 4)

\* mutant of handle_split: the other part does not take over the upper
\* prefixes
handle_split_NoPrefix(it, level) ==
    IF it.masks[level + 1] = {}
    THEN [it |-> it, other |-> None]
    ELSE LET first_bit == Min(it.masks[level + 1])
             average_bit == bit_average(it.masks[level + 1])
             lower == {b \in it.masks[level + 1] : b < average_bit}
             idx == BitOr(level_prefix(it, level), first_bit)
         IN IF average_bit # -1
            THEN [it |-> [it EXCEPT !.masks[level + 1] = lower,
                                    !.prefix[level] = idx * WordBits],
                  other |-> Some(
                      [set |-> it.set,
                       masks |-> [l \in 1..LAYERS |->
                                    IF l = level + 1 THEN it.masks[level + 1] \ lower
                                    ELSE {}],
                       prefix |-> [p \in 1..(LAYERS - 1) |->
                                    IF p = level
                                    THEN BitOr(level_prefix(it, level), average_bit)
                                             * WordBits
                                    ELSE 0]])]
            ELSE [it |-> [it EXCEPT !.prefix[level] = idx * WordBits,
                                    !.masks[level + 1] = {},
                                    !.masks[level] = get_from_layer(it.set, level - 1, idx)],
                  other |-> None]

\* BitIter::handle_split: the iterator after the call and the part split off
handle_split(it, level) ==
    IF it.masks[level + 1] = {}
    THEN [it |-> it, other |-> None]
    ELSE LET first_bit == Min(it.masks[level + 1])
             average_bit == bit_average(it.masks[level + 1])
             lower == {b \in it.masks[level + 1] : b < average_bit}
             idx == BitOr(level_prefix(it, level), first_bit)
         IN IF average_bit # -1
            THEN [it |-> [it EXCEPT !.masks[level + 1] = lower,
                                    !.prefix[level] = idx * WordBits],
                  other |-> Some(
                      [set |-> it.set,
                       masks |-> [l \in 1..LAYERS |->
                                    IF l = level + 1 THEN it.masks[level + 1] \ lower
                                    ELSE {}],
                       prefix |-> [p \in 1..(LAYERS - 1) |->
                                    IF p = level
                                    THEN BitOr(level_prefix(it, level), average_bit)
                                             * WordBits
                                    ELSE IF p > level THEN it.prefix[p]
                                    ELSE 0]])]
            ELSE [it |-> [it EXCEPT !.prefix[level] = idx * WordBits,
                                    !.masks[level + 1] = {},
                                    !.masks[level] = get_from_layer(it.set, level - 1, idx)],
                  other |-> None]

\* BitIter::split
BitIter_split(it) ==
    LET s3 == handle_split(it, 3)
        s2 == handle_split(s3.it, 2)
    IN IF s3.other # None THEN s3
       ELSE IF s2.other # None THEN s2
       ELSE handle_split(s2.it, 1)

\* the index with the bits b3, b2, b1, b0 in the layers 3 to 0
Key(b3, b2, b1, b0) == ((b3 * WordBits + b2) * WordBits + b1) * WordBits + b0

\* the indices the bitsets are made of: some in one word of layer 0, some
\* that share with them the bits of the layers 3 and 2, some that share the
\* bit of layer 3, and some below other bits of layer 3
KeyUniverse ==
    {Key(3, 5, 9, b) : b \in {0, 1, 7, 62, 63}}
        \cup {Key(3, 5, b, 0) : b \in {1, 15, 16, 63}}
        \cup {Key(3, b, 0, 0) : b \in {1, 17, 40, 63}}
        \cup {Key(b, 0, 0, 0) : b \in {1, 2, 31, 32, 63}}

KeySets == {set \in SUBSET KeyUniverse : Cardinality(set) <= MaxKeys}

\* a BitIter newly made over the set, not split yet
Unsplit(set) == [set |-> set, left |-> BitIter_new(set), right |-> None, done |-> FALSE]

InitSplit(sets) == split \in {Unsplit(set) : set \in sets}

\* JoinProducer::split on the producer of a parallel join newly made
JoinProducerSplit ==
    LET s == BitIter_split(split.left) IN
    /\ ~split.done
    /\ split' = [split EXCEPT !.left = s.it, !.right = s.other, !.done = TRUE]
    /\ UNCHANGED <<dispVars, cellVars, entVars, stoVars, worldVars, jiter, joined>>

NextSplit == JoinProducerSplit

\* ------------------------------------------------------------------------
\* Lookups of the components of one entity in a World
\* ------------------------------------------------------------------------

\* Entities::allocate on world.entities_mut
WorldAllocate ==
    LET a == allocate(wld.entities) IN
    /\ wld.builder = NoBuilder
    /\ whist.handed < MaxHanded
    /\ wld' = [wld EXCEPT !.entities = a.reg]
    /\ whist' = [Called(whist, "allocate", <<>>, a.entity) EXCEPT
                    !.held = @ \cup {a.entity}, !.live = @ \cup {a.entity},
                    !.handed = @ + 1]
    /\ UNCHANGED <<dispVars, cellVars, entVars, stoVars, joinVars>>

\* the component type the lookups are of
Looked == "Health"

\* StorageWrapper::get, get_mut and contains on world.component_mut::<Health>(),
\* and (&health,).join().get(entity, &world.entities()), called one after the
\* other for one entity; the history keeps what each returned
Lookups(entity) ==
    LET s == wld.storages[Looked] IN
    /\ whist' = Called(whist, "lookups", <<>>,
                       [get |-> wrapper_get(wld.entities, s, entity),
                        get_mut |-> wrapper_get_mut(wld.entities, s, entity),
                        contains |-> wrapper_contains(wld.entities, s, entity),
                        join_get |-> join_get(JoinIter_new(<<s>>), wld.entities, entity)])
    /\ UNCHANGED <<wld, dispVars, cellVars, entVars, stoVars, joinVars>>

NextLookup ==
    \/ WorldAllocate
    \/ LazyCreateEntity
    \/ \E entity \in whist.held : \E component \in ValuesOf(Looked) :
           WrapperInsert(entity, Looked, component)
    \/ \E entity \in whist.held : WorldDelete(entity)
    \/ \E entity \in whist.held : WorldKill(entity)
    \/ WorldMaintain
    \/ \E entity \in whist.held : Lookups(entity)


\* ------------------------------------------------------------------------
\* Specification of the dispatcher: a graph is built from add calls whose
\* names are new and whose dependencies name registered units, then run
\* ------------------------------------------------------------------------

Resources == {"A", "B"}

UnitNames == <<"a", "b", "c", "d", "e", "f", "g">>

\* the accesses a unit declares: (reads, writes)
Accesses ==
    {<<{}, {}>>, <<{"A"}, {}>>, <<{}, {"A"}>>}

\* dependency lists over the names registered so far
DependencyLists ==
    {<<>>} \cup {<<n>> : n \in DOMAIN names}

InitDispatcher ==
    /\ next_id = 0
    /\ items = <<>>
    /\ names = <<>>
    /\ add_result = AddResult("none", "")
    /\ built = FALSE
    /\ task = <<>>
    /\ version = <<>>
    /\ disp = [pc |-> "idle", receivers |-> <<>>, seen |-> <<>>, idx |-> 1,
               result |-> "none", ticks |-> 0, alive |-> TRUE]
    /\ world = [ptr |-> "null", borrow |-> 0]

Add ==
    /\ next_id < MaxUnits
    /\ \E deps \in DependencyLists, acc \in Accesses :
        add_inner(UnitNames[next_id + 1], deps, acc[1], acc[2])

\* the accesses of the five systems of tests::dependencies_on_read_and_write
ExampleAccesses ==
    << <<{"A"}, {"B"}>>, <<{"A"}, {"C"}>>, <<{"B"}, {"D"}>>, <<{"C"}, {"D"}>>,
       <<{"A"}, {"B", "C", "D"}>> >>

\* the accesses the unit registered as id may declare: none, or those of the
\* example's system of that position
BuilderAccesses(id) ==
    {<<{}, {}>>} \cup (IF id <= Len(ExampleAccesses) THEN {ExampleAccesses[id]} ELSE {})

\* Builder::with on a Builder that is only built, not dispatched
AddBuilder ==
    /\ next_id < MaxItems
    /\ \E deps \in DependencyLists, acc \in BuilderAccesses(next_id + 1) :
        add_inner(UnitNames[next_id + 1], deps, acc[1], acc[2])

NextBuilder ==
    \/ AddBuilder
    \/ build

\* the names units are added with, the empty name among them
AddNames == {"", "a", "b"}

\* dependency lists over those names, whether registered or not
AnyDependencyLists == {<<>>, <<"a", "b">>} \cup {<<n>> : n \in AddNames}

\* Builder::add with any of the names and any of the dependency lists
AddAny ==
    /\ next_id < MaxAdds
    /\ \E name \in AddNames, deps \in AnyDependencyLists, acc \in Accesses :
        add_inner(name, deps, acc[1], acc[2])

NextAdd == AddAny

NextDispatch ==
    \/ Add
    \/ build
    \/ \E u \in DOMAIN task : TaskChanged(u)
    \/ \E u \in DOMAIN task : DerefLoad(u)
    \/ \E u \in DOMAIN task : DerefStore(u)
    \/ \E u \in DOMAIN task : ReleaseLoad(u)
    \/ \E u \in DOMAIN task : ReleaseStore(u)
    \/ \E u \in DOMAIN task : TaskFinish(u)
    \/ \E u \in DOMAIN task : TaskSend(u)
    \/ dispatch
    \/ DispatchChanged

\* the state after construction, the one MaskedStorage being of one of kinds
\* and the join being over one of tuples
InitWith(kinds, tuples) ==
    /\ InitDispatcher /\ InitCell /\ InitEntities /\ InitStorage(kinds)
    /\ InitWorld /\ InitJoin(tuples) /\ InitSplit({{}})

Init == InitWith({"VecStorage"}, {<<{}>>})

SpecDispatch == Init /\ [][NextDispatch]_vars

SpecBuilder == Init /\ [][NextBuilder]_vars

SpecCell == Init /\ [][NextCell]_vars

\* the Cell's operations together with the guards' map
NextMap ==
    \/ NextCell
    \/ \E t \in Threads : RefMap(t)
    \/ \E t \in Threads : RefMutMap(t)

SpecMap == Init /\ [][NextMap]_vars

SpecAllocate == Init /\ [][NextAllocate]_vars

SpecEntities == Init /\ [][NextEntities]_vars

SpecStorage == InitWith(Kinds, {<<{}>>}) /\ [][NextStorage]_vars

\* a DenseVecStorage under inserts and removes through its MaskedStorage,
\* the remove that discards the value included
InitDense == InitWith({"DenseVecStorage"}, {<<{}>>})

NextDense ==
    \/ \E index \in Indices, component \in Values : MaskedInsert(index, component)
    \/ \E index \in Indices : MaskedRemove(index)
    \/ \E index \in Indices : MaskedDrop(index)

SpecDense == InitDense /\ [][NextDense]_vars

SpecWorld == Init /\ [][NextWorld]_vars

SpecLookup == Init /\ [][NextLookup]_vars

\* entities are handed out by allocate only, components are inserted, and
\* entities are removed by kill, or by delete and World::maintain
NextRecycle ==
    \/ WorldAllocate
    \/ \E entity \in whist.held : \E component \in ValuesOf(Looked) :
           WrapperInsert(entity, Looked, component)
    \/ \E entity \in whist.held : WorldDelete(entity)
    \/ \E entity \in whist.held : WorldKill(entity)
    \/ WorldMaintain

SpecRecycle == Init /\ [][NextRecycle]_vars

SpecJoin == InitWith({"VecStorage"}, MaskTuples) /\ [][NextJoin]_vars

SpecAdd == Init /\ [][NextAdd]_vars

SpecLazy == Init /\ [][NextLazy]_vars

\* the state after construction, the join being over a tuple with MaybeJoin
\* members
InitMaybeJoin ==
    /\ InitDispatcher /\ InitCell /\ InitEntities /\ InitStorage({"VecStorage"})
    /\ InitWorld /\ InitMaybe /\ InitSplit({{}})

SpecMaybe == InitMaybeJoin /\ [][NextJoin]_vars

\* a BitIter is made over a set of indices and split once
InitKeys ==
    /\ InitDispatcher /\ InitCell /\ InitEntities /\ InitStorage({"VecStorage"})
    /\ InitWorld /\ InitJoin({<<{}>>}) /\ InitSplit(KeySets)

SpecSplit == InitKeys /\ [][NextSplit]_vars

\* a step of some unit task
TaskStep ==
    \E u \in DOMAIN task :
        \/ TaskChanged(u)
        \/ DerefLoad(u)
        \/ DerefStore(u)
        \/ ReleaseLoad(u)
        \/ ReleaseStore(u)
        \/ TaskFinish(u)
        \/ TaskSend(u)

\* The executor polls every spawned task that can make progress, unit bodies
\* terminate, and the host keeps polling the future of its dispatch call.
FairDispatch ==
    /\ Init
    /\ [][NextDispatch]_vars
    /\ WF_vars(TaskStep)
    /\ WF_vars(DispatchChanged)

\* the dispatcher with a host that may drop it
NextDrop ==
    \/ NextDispatch
    \/ DropDispatcher

\* under the fairness of FairDispatch; the host need not drop the Dispatcher
FairDrop ==
    /\ Init
    /\ [][NextDrop]_vars
    /\ WF_vars(TaskStep)
    /\ WF_vars(DispatchChanged)

\* the dispatcher with unit bodies that may panic
NextPanic ==
    \/ NextDispatch
    \/ \E u \in DOMAIN task : TaskPanic(u)

SpecPanic == Init /\ [][NextPanic]_vars

\* the same under the fairness of FairDispatch; a body need not panic
FairPanic ==
    /\ Init
    /\ [][NextPanic]_vars
    /\ WF_vars(TaskStep)
    /\ WF_vars(DispatchChanged)

\* ------------------------------------------------------------------------
\* Properties of the dispatcher
\* ------------------------------------------------------------------------

\* the tick signals sent so far
Tick == version[TickChannel]

\* the unit has left the receiver loop for a run of its body that it has not
\* signalled yet
Started(u) ==
    task[u].pc \in {"deref", "deref_store", "release", "release_store", "body", "send"}

\* the number of the run the unit is in (its runs are counted from 1)
RunNumber(u) == IF task[u].pc = "send" THEN task[u].ran ELSE task[u].ran + 1

\* b is reachable from a over the raw dependencies: the explicit named ones
\* and the ones implied by a resource conflict with an earlier unit
RECURSIVE RawDependsOn(_, _, _)
RawDependsOn(its, a, b) ==
    \/ b \in its[a].raw
    \/ \E d \in its[a].raw : RawDependsOn(its, d, b)

\* unit b, registered after unit a, reads what a writes or writes what a
\* reads or writes
Conflict(its, a, b) ==
    /\ a < b
    /\ \/ its[b].reads \cap its[a].writes # {}
       \/ its[b].writes \cap (its[a].reads \cup its[a].writes) # {}

C3_OkMeansEveryUnitRanOnce ==
    (built /\ disp.pc = "idle" /\ disp.result = "Ok") =>
        \A u \in DOMAIN task :
            /\ task[u].ran = disp.ticks
            /\ version[u] = disp.ticks
            /\ task[u].pc = "wait"

C3_Witness ==
    /\ built
    /\ disp.pc = "idle"
    /\ disp.result = "Ok"
    /\ disp.ticks = 2
    /\ \E u \in DOMAIN task : u \notin Range(disp.receivers)

\* C4: a dispatch call that has sent its tick signal eventually returns.
C4_DispatchReturns == (disp.pc = "await") ~> (disp.pc = "idle")

\* ------------------------------------------------------------------------
\* Properties of the Builder
\* ------------------------------------------------------------------------

\* the list is ascending without duplicates
SortedDistinct(s) == \A i \in 1..Len(s) : \A j \in 1..Len(s) : i < j => s[i] < s[j]

\* the raw dependencies of k that no other raw dependency of k reaches
Reduction(its, k) ==
    {d \in its[k].raw : ~\E e \in its[k].raw : RawDependsOn(its, e, d)}

\* the stored lists of the systems of tests::dependencies_on_read_and_write
ExampleDependencies == << <<>>, <<>>, <<1>>, <<2, 3>>, <<4>> >>

\* the units are those of the example, registered without named dependencies
IsExample(its) ==
    /\ DOMAIN its = DOMAIN ExampleAccesses
    /\ \A k \in DOMAIN its :
        /\ <<its[k].reads, its[k].writes>> = ExampleAccesses[k]
        /\ its[k].raw = ImplicitDependencies([j \in 1..(k - 1) |-> its[j]],
                                             its[k].reads, its[k].writes)

\* C11: the stored predecessor list of every unit is sorted, free of
\* duplicates and holds exactly the raw dependencies (named and implied by a
\* resource conflict) that no other raw dependency reaches; the units
\* reachable over the stored lists are those reachable over the raw ones; the
\* five units of the example store {}, {}, {1}, {2,3}, {4}.
C11_StoredListIsTransitiveReduction ==
    /\ \A k \in DOMAIN items :
        /\ SortedDistinct(items[k].dependencies)
        /\ Range(items[k].dependencies) = Reduction(items, k)
        /\ \A b \in DOMAIN items :
            depends_on(items, k, b) <=> RawDependsOn(items, k, b)
    /\ IsExample(items) =>
        \A k \in DOMAIN items : items[k].dependencies = ExampleDependencies[k]

\* the example is registered, and so is a unit whose raw dependencies were
\* reduced
C11_Witness ==
    /\ IsExample(items)
    /\ Range(items[5].dependencies) # items[5].raw

\* the registered units that no registered unit depends on
Undepended(its) ==
    {k \in DOMAIN its : ~\E j \in DOMAIN its : RawDependsOn(its, j, k)}

\* C12: final_systems is exactly the set of registered units that no other
\* registered unit depends on, directly or transitively; every registered
\* unit is final or reached from a final one; the built Dispatcher awaits
\* exactly these; for the five-unit example it is unit 5 alone.
C12_FinalSystemsAreTheUndepended ==
    LET final == final_systems(items) IN
    /\ SortedDistinct(final)
    /\ Range(final) = Undepended(items)
    /\ \A k \in DOMAIN items :
        k \in Range(final) \/ \E f \in Range(final) : RawDependsOn(items, f, k)
    /\ IsExample(items) => final = <<5>>
    /\ built => disp.receivers = final

\* a Dispatcher was built from the example
C12_Witness ==
    /\ built
    /\ IsExample(items)
    /\ disp.receivers = <<5>>

\* ------------------------------------------------------------------------
\* Properties of the Cell
\* ------------------------------------------------------------------------

RECURSIVE SumRefs(_)
SumRefs(n) == IF n = 0 THEN 0 ELSE cell[n].refs + SumRefs(n - 1)

RECURSIVE SumMuts(_)
SumMuts(n) == IF n = 0 THEN 0 ELSE cell[n].muts + SumMuts(n - 1)

\* the live Ref guards and the live RefMut guards of all threads
LiveRefs == SumRefs(NumThreads)

LiveRefMuts == SumMuts(NumThreads)

\* a RefMut is the only guard there is
CellExclusive ==
    /\ LiveRefMuts <= 1
    /\ LiveRefMuts = 1 => LiveRefs = 0

\* C5: a RefMut never coexists with another guard; a mutable acquisition made
\* while any guard is live fails (panic for borrow_mut, None for
\* try_borrow_mut) and so does a shared acquisition made while a RefMut is
\* live, and neither hands out a guard.
C5_BorrowExclusion ==
    /\ []CellExclusive
    /\ [][\A t \in Threads :
            /\ \A op \in {"borrow_mut", "try_borrow_mut"} :
                (CheckFlagWrite(t, op) /\ LiveRefs + LiveRefMuts > 0)
                    => /\ last' = [thread |-> t, value |-> Failure(op)]
                       /\ cell'[t].muts = cell[t].muts
            /\ \A op \in {"borrow", "try_borrow"} :
                (CheckFlagReadLoad(t, op) /\ LiveRefMuts = 1)
                    => /\ last' = [thread |-> t, value |-> Failure(op)]
                       /\ cell'[t].refs = cell[t].refs]_vars

C5_Witness ==
    \E t \in Threads, u \in Threads :
        /\ t # u
        /\ cell[t].muts = 1
        /\ last = [thread |-> u, value |-> "panic: already borrowed mutably"]

\* C6: the flag is the number of live Ref guards, clones included, or the
\* exclusive marker exactly while a RefMut is live; with no guard left it is
\* 0 and the next acquisition of either mode is not refused.
C6_FlagCountsGuards ==
    /\ [](flag = IF LiveRefMuts >= 1 THEN UsizeMax ELSE LiveRefs)
    /\ [](LiveRefMuts <= 1)
    /\ [][\A t \in Threads :
            /\ ((borrow_mut(t) \/ try_borrow_mut(t)) /\ LiveRefs + LiveRefMuts = 0)
                   => /\ last' = [thread |-> t, value |-> "RefMut"]
                      /\ flag' = UsizeMax
            /\ ((borrow(t) \/ try_borrow(t)) /\ LiveRefMuts = 0)
                   => cell'[t].pc = "cas"]_vars

C6_Witness ==
    \E t \in Threads :
        /\ last = [thread |-> t, value |-> "dropped"]
        /\ cell[t].refs = 1
        /\ flag = 1
        /\ LiveRefs = 1

\* ------------------------------------------------------------------------
\* Properties of the entity registry
\* ------------------------------------------------------------------------

\* the entities handed out that is_alive reports alive
LiveEntities(r) == {e \in ehist.held : is_alive(r, e)}

\* no two live entities share an index
LiveDistinct ==
    \A a \in LiveEntities(ent) : \A b \in LiveEntities(ent) :
        a.index = b.index => a = b

\* the entities handed out earlier at the index of entity
Earlier(entity) == {old \in ehist.held : old.index = entity.index}

\* what an allocate call does to the entities handed out before it
AllocateIsSound ==
    LET new == ehist'.ret IN
    /\ is_alive(ent', new)
    /\ \A old \in Earlier(new) :
        /\ ~is_alive(ent, old)
        /\ ~is_alive(ent', old)
        /\ new.generation > old.generation
    /\ Earlier(new) # {} =>
        \E old \in Earlier(new) : new.generation = old.generation + 1

\* C7: under any sequence of allocate and kill calls no two live entities
\* share an index, allocate never hands out the index of an entity that is
\* alive, and when the index of a killed entity is handed out again the new
\* entity has that index with the generation raised by one, is_alive is true
\* for it and false for the old one.
C7_AllocateKillKeepIndicesApart ==
    /\ []LiveDistinct
    /\ [][AllocateStep => AllocateIsSound]_vars

\* an index was killed and has been handed out again by allocate
C7_Witness ==
    /\ ehist.op = "allocate"
    /\ is_alive(ent, ehist.ret)
    /\ \E old \in ehist.held :
        /\ old \in ehist.doomed
        /\ old.index = ehist.ret.index
        /\ ehist.ret.generation = old.generation + 1
        /\ ~is_alive(ent, old)

\* C8: an entity returned by create is alive when create returns, and after
\* every maintain each entity that create has returned is alive unless delete
\* or kill was called on it.
C8_CreatedStaysAlive ==
    /\ ehist.op = "create" => is_alive(ent, ehist.ret)
    /\ ehist.op = "maintain" =>
        \A e \in ehist.created \ ehist.doomed : is_alive(ent, e)

\* the free indices the cache holds
FreeIndices(r) == SubSeq(r.cache, 1, r.len)

\* C9: a maintain that directly follows a maintain returns the empty list
\* and changes neither the liveness of any entity nor the free indices, and
\* no maintain returns an entity that an earlier maintain has returned.
C9_MaintainClearsBuffers ==
    /\ [][MaintainStep /\ ehist.clean =>
            /\ ehist'.ret = <<>>
            /\ LiveEntities(ent') = LiveEntities(ent)
            /\ FreeIndices(ent') = FreeIndices(ent)]_vars
    /\ [][MaintainStep => Range(ehist'.ret) \cap ehist.reported = {}]_vars

\* C10: the create calls made while the registry is shared return pairwise
\* distinct indices, and a fresh index is taken only when no free index is
\* left in the cache.
C10_ConcurrentCreatesDistinct ==
    /\ \A i \in 1..Len(ehist.phase) : \A j \in 1..Len(ehist.phase) :
        i # j => ehist.phase[i].index # ehist.phase[j].index
    /\ (\E t \in Threads : ecall[t].pc \in {"inc_load", "inc_cas"}) => ent.len = 0

\* C13: delete on a live entity returns Ok and the entity is alive until the
\* next maintain, which makes it dead and returns it in its list; delete on
\* an entity that is not alive returns Err and changes nothing.
C13_DeleteIsDeferredToMaintain ==
    /\ [](\A e \in ehist.pending : is_alive(ent, e))
    /\ [][\A e \in ehist.held :
            DeleteEntity(e) =>
                IF is_alive(ent, e)
                THEN ehist'.ret = TRUE /\ is_alive(ent', e)
                ELSE ehist'.ret = FALSE /\ ent' = ent]_vars
    /\ [][MaintainStep =>
            \A e \in ehist.pending :
                ~is_alive(ent', e) /\ e \in Range(ehist'.ret)]_vars

\* the position of the first entity of the slice that is not alive or that
\* stands at an earlier position too; 0 if there is none
FirstNotAlive(r, batch) ==
    LET bad == {i \in 1..Len(batch) :
                  \/ ~is_alive(r, batch[i])
                  \/ \E j \in 1..(i - 1) : batch[j] = batch[i]}
    IN IF bad = {} THEN 0 ELSE Min(bad)

\* what a kill call on the slice does
KillAbortsAtFirstError(batch) ==
    LET first == FirstNotAlive(ent, batch) IN
    IF first = 0
    THEN /\ ehist'.ret = <<>>
         /\ \A i \in 1..Len(batch) :
             /\ ~is_alive(ent', batch[i])
             /\ batch[i].index \in Range(FreeIndices(ent'))
    ELSE /\ ehist'.ret = <<batch[first]>>
         /\ \A i \in 1..(first - 1) : ~is_alive(ent', batch[i])
         /\ \A i \in first..Len(batch) :
             (\A j \in 1..(first - 1) : batch[j] # batch[i])
                 => (is_alive(ent', batch[i]) <=> is_alive(ent, batch[i]))

\* C14: kill on a slice returns the error naming the first entity that is
\* not alive when it is reached (a repeated entity included) and kills no
\* entity at or after that position; if every entity is alive it returns Ok,
\* every entity of the slice is dead afterwards and its index is free.
C14_KillAbortsAtFirstError ==
    [][\A batch \in Batches : KillBatch(batch) => KillAbortsAtFirstError(batch)]_vars

\* ------------------------------------------------------------------------
\* Properties of the component storages
\* ------------------------------------------------------------------------

\* the mask is the domain of the partial map and the backing store reads the
\* value of the map at every masked index
IsPartialMap ==
    /\ ~sto.ub
    /\ sto.mask = DOMAIN shist.map
    /\ \A index \in sto.mask : storage_get(sto, index) = shist.map[index]

\* C15: for every backing store, after any sequence of insert, remove, drop
\* and clear the mask is the set of indices inserted and not since removed;
\* insert returns the previous value exactly if the index was present and
\* the value read right after it is the inserted one; remove returns the
\* value exactly if the index was present and otherwise changes nothing.
C15_MaskedStorageIsPartialMap ==
    /\ []IsPartialMap
    /\ [][\A index \in Indices :
            /\ \A component \in Values :
                MaskedInsert(index, component) =>
                    /\ shist'.ret = IF index \in DOMAIN shist.map
                                    THEN Some(shist.map[index]) ELSE None
                    /\ index \in sto'.mask
                    /\ storage_get(sto', index) = component
            /\ MaskedRemove(index) =>
                    /\ shist'.ret = IF index \in DOMAIN shist.map
                                    THEN Some(shist.map[index]) ELSE None
                    /\ index \notin DOMAIN shist.map => sto' = sto]_vars

\* a DenseVecStorage that was cleared while it held a value holds a value
\* again, and another value has just been removed from it
C15_Witness ==
    /\ sto.kind = "DenseVecStorage"
    /\ Len(sto.data) > Cardinality(sto.mask)
    /\ shist.op = "remove"
    /\ shist.ret # None
    /\ sto.mask # {}

\* ------------------------------------------------------------------------
\* Properties of the World
\* ------------------------------------------------------------------------

\* C16: StorageWrapper::insert for an entity that is not alive returns
\* Err(EntityIsNotAlive(entity)) and leaves the mask and the values of the
\* storage as they were; for an entity that is alive, one returned by create
\* and not yet maintained included, it returns Ok.  An entity is alive from
\* the call that handed it out until it is killed, or until the maintain that
\* follows its delete.
C16_InsertChecksLiveness ==
    [][\A entity \in whist.held, name \in Components :
          \A component \in ValuesOf(name) :
              WrapperInsert(entity, name, component) =>
                  IF entity \in whist.live
                  THEN "ok" \in DOMAIN whist'.ret
                  ELSE /\ whist'.ret = EntityIsNotAlive(entity)
                       /\ wld'.storages = wld.storages]_vars

\* what a MaskedStorage holds for index: None when the mask does not have it
Slot(s, index) == IF index \in s.mask THEN Some(storage_get(s, index)) ELSE None

\* C17: World::maintain drains the Lazy queue, then applies the buffered
\* creations and deletions, then drops from every registered storage the slot
\* of each entity deleted: when it returns the queue is empty, no storage has
\* in its mask the index of an entity of the list of deleted entities, and
\* every entity that is alive afterwards, and whose index is not that of an
\* entity whose deletion was buffered, has in every storage the component the
\* drained queue left it.
C17_MaintainDropsOnlyTheDeleted ==
    [][WorldMaintain =>
          /\ wld'.queue = <<>>
          /\ \A n \in Components :
                \A i \in 1..Len(whist'.ret) :
                    ~(whist'.ret[i].index \in wld'.storages[n].mask)
          /\ \A n \in Components :
                \A entity \in whist'.live :
                    (\A d \in whist.pending : d.index # entity.index) =>
                        Slot(wld'.storages[n], entity.index)
                            = Slot(whist'.arg[n], entity.index)]_vars

\* C18: when an EntityBuilder is dropped without build, its entity is no
\* longer alive and no component inserted through the builder can be read for
\* it; when build is called, the entity is alive and every component inserted
\* through the builder can be read at once.
C18_DroppedBuilderRollsBack ==
    [][/\ BuilderDrop =>
             /\ ~is_alive(wld'.entities, wld.builder[1].entity)
             /\ \A n \in DOMAIN whist.with :
                   wrapper_get(wld'.entities, wld'.storages[n], wld.builder[1].entity) = None
       /\ BuilderBuild =>
             /\ is_alive(wld'.entities, wld.builder[1].entity)
             /\ \A n \in DOMAIN whist.with :
                   wrapper_get(wld'.entities, wld'.storages[n], wld.builder[1].entity)
                       = Some(whist.with[n])]_vars

\* ------------------------------------------------------------------------
\* Properties of the join
\* ------------------------------------------------------------------------

\* the indices every joined source has in its mask
Common == {i \in JoinIndices : \A k \in 1..Len(jiter.values) : i \in jiter.values[k].mask}

\* the join is the one of the example: A masked at {1,2,3}, B at {2,3,4}
IsJoinExample ==
    /\ Len(jiter.values) = 2
    /\ jiter.values[1].mask = {1, 2, 3}
    /\ jiter.values[2].mask = {2, 3, 4}

\* C20: the items a join over a tuple yields are one for each index all the
\* masks have, in ascending order of the index, each with the value of every
\* source at the index; when no index is in all the masks nothing is
\* yielded; for masks {1,2,3} and {2,3,4} the indices are 2 and 3.
C20_JoinYieldsTheIntersection ==
    /\ \A n \in 1..Len(joined) :
          /\ joined[n].index \in Common
          /\ n > 1 => joined[n - 1].index < joined[n].index
          /\ joined[n].item = [k \in 1..Len(jiter.values) |-> ValueAt(k, joined[n].index)]
    /\ jiter.done => {joined[n].index : n \in 1..Len(joined)} = Common
    /\ jiter.done /\ IsJoinExample =>
          [n \in 1..Len(joined) |-> joined[n].index] = <<2, 3>>

\* the join of the example has ended, after two items
C20_Witness == jiter.done /\ IsJoinExample /\ Len(joined) = 2

\* ------------------------------------------------------------------------
\* Properties of the lookups
\* ------------------------------------------------------------------------

\* the entity has its index in the mask of the storage looked at, and is
\* alive: handed out, not killed since, and not deleted by a maintain
Held(entity) ==
    /\ entity.index \in wld.storages[Looked].mask
    /\ entity \in whist.live

\* C19: StorageWrapper::get, get_mut and contains and JoinIter::get find a
\* component only when the index of the entity is in the mask and the entity
\* is alive.  For an entity that is dead, or stale while its index is still or
\* again in the mask, they return None or false.
C19_LookupsCheckLiveness ==
    [][\A entity \in whist.held :
          Lookups(entity) /\ ~Held(entity) =>
              /\ whist'.ret.get = None
              /\ whist'.ret.get_mut = None
              /\ whist'.ret.contains = FALSE
              /\ whist'.ret.join_get = None]_vars

\* the lookups have found nothing although every entity handed out has its
\* index in the mask: every one of them is dead
C19_Witness ==
    /\ whist.op = "lookups"
    /\ whist.ret.get = None
    /\ whist.held # {}
    /\ \A entity \in whist.held :
          entity.index \in wld.storages[Looked].mask /\ ~(entity \in whist.live)

\* ------------------------------------------------------------------------
\* Properties of the join with MaybeJoin members
\* ------------------------------------------------------------------------

\* the join is over (A, B.maybe())
IsMaybePair ==
    /\ Len(jiter.values) = 2
    /\ ~IsMaybe(jiter.values[1])
    /\ IsMaybe(jiter.values[2])

\* what B.maybe() contributes at an index
Contribution(index) ==
    IF index \in jiter.values[2].maybe[1] THEN Some(ValueAt(2, index)) ELSE None

\* C21: a join over (A, B.maybe()) yields one item for each index of the
\* mask of A and no other, in ascending order of the index; the item has the
\* value of A, and for B Some(value) when the mask of B has the index and
\* None when not.  A warning for an unconstrained join is logged only when
\* every member of the tuple is a MaybeJoin.
C21_MaybeDoesNotConstrain ==
    /\ IsMaybePair =>
          /\ \A n \in 1..Len(joined) :
                /\ joined[n].index \in jiter.values[1].mask
                /\ n > 1 => joined[n - 1].index < joined[n].index
                /\ joined[n].item = <<ValueAt(1, joined[n].index),
                                      Contribution(joined[n].index)>>
          /\ jiter.done =>
                {joined[n].index : n \in 1..Len(joined)} = jiter.values[1].mask
    /\ jiter.warned => \A k \in 1..Len(jiter.values) : IsMaybe(jiter.values[k])

\* a join over (A, B.maybe()) has ended after an item for each of the three
\* indices of A, of which B has the second only
C21_Witness ==
    /\ jiter.done /\ IsMaybePair
    /\ jiter.values[1].mask = {1, 2, 3}
    /\ jiter.values[2].maybe[1] = {2, 4}
    /\ Len(joined) = 3
    /\ joined[1].item[2] = None
    /\ joined[2].item[2] = Some("x")

\* ------------------------------------------------------------------------
\* Properties of the Lazy queue
\* ------------------------------------------------------------------------

\* the ids of the entries of the log that have an event, in the order logged
LoggedIds(ev) ==
    LET Is(e) == e.ev = ev
        sel == SelectSeq(wld.log, Is)
    IN [k \in 1..Len(sel) |-> sel[k].id]

IsPrefix(a, b) == Len(a) <= Len(b) /\ SubSeq(b, 1, Len(a)) = a

\* C22: the updates run in the order they were pushed, one ending before the
\* next starts; when maintain has returned the queue is empty and every
\* update pushed has run, those pushed by an update running in that
\* maintain too, after all that were pushed before them.
C22_LazyMaintainIsFifo ==
    /\ IsPrefix(LoggedIds("start"), LoggedIds("push"))
    /\ \A p \in 1..Len(wld.log) :
          wld.log[p].ev = "start" =>
              \E q \in (p + 1)..Len(wld.log) :
                  /\ wld.log[q] = LogEntry("end", wld.log[p].id)
                  /\ \A r \in (p + 1)..(q - 1) : wld.log[r].ev = "push"
    /\ whist.op = "maintain" =>
          /\ wld.queue = <<>>
          /\ LoggedIds("start") = LoggedIds("push")

\* X and Y were pushed, X pushed Z while it ran, and one maintain has run X,
\* then Y, then Z
C22_Witness ==
    /\ whist.op = "maintain" /\ whist.maintains = 1
    /\ LoggedIds("push") = <<1, 2, 11>>
    /\ LoggedIds("start") = <<1, 2, 11>>

\* ------------------------------------------------------------------------
\* Properties of Builder::add
\* ------------------------------------------------------------------------

\* a unit is stored under the name
Registered(name) == \E k \in DOMAIN items : items[k].name = name

Backward(its) == \A k \in DOMAIN its : \A d \in Range(its[k].dependencies) : d < k

\* C24: add with a name not used before returns
\* Err(DependencyWasNotFound(name)) for the first listed dependency name that
\* no unit is registered under, the name of the unit being added included,
\* and every stored predecessor id is smaller than the id of its unit.
C24_UnknownDependencyIsAnError ==
    [][\A name \in AddNames, deps \in AnyDependencyLists, acc \in Accesses :
          /\ add_inner(name, deps, acc[1], acc[2])
          /\ name \notin DOMAIN names
          /\ \E i \in 1..Len(deps) : ~Registered(deps[i])
          => /\ add_result' =
                   DependencyWasNotFound(
                       deps[Min({i \in 1..Len(deps) : ~Registered(deps[i])})])
             /\ Backward(items')]_vars

\* C25: add with the empty name never returns NameAlreadyRegistered, however
\* many units were added with it, and an add whose dependency list has the
\* empty name in it does not succeed by resolving it to an unnamed unit.
C25_EmptyNameIsNotAName ==
    [][\A name \in AddNames, deps \in AnyDependencyLists, acc \in Accesses :
          add_inner(name, deps, acc[1], acc[2]) =>
              /\ name = "" => add_result'.kind # "NameAlreadyRegistered"
              /\ "" \in Range(deps) => add_result'.kind # "Ok"]_vars

\* C26: an add that returns NameAlreadyRegistered or DependencyWasNotFound
\* leaves the units and the name map as they were before the call, so that
\* the name of the unit that was not added is not in the name map.
C26_FailedAddChangesNothing ==
    [][\A name \in AddNames, deps \in AnyDependencyLists, acc \in Accesses :
          /\ add_inner(name, deps, acc[1], acc[2])
          /\ add_result'.kind \in {"NameAlreadyRegistered", "DependencyWasNotFound"}
          => /\ items' = items
             /\ names' = names]_vars

\* C27: an add that succeeds leaves every unit registered before as it was
\* stored, reads, writes and predecessors, and stores only the new unit, whose
\* predecessors were all registered before it: a unit never has an edge to
\* a unit registered after it, whatever their accesses.
C27_AddLeavesEarlierUnitsAlone ==
    [][\A name \in AddNames, deps \in AnyDependencyLists, acc \in Accesses :
          add_inner(name, deps, acc[1], acc[2]) /\ add_result'.kind = "Ok" =>
              /\ DOMAIN items' = DOMAIN items \cup {next_id'}
              /\ \A k \in DOMAIN items : items'[k] = items[k]
              /\ Backward(items')]_vars

\* a unit that writes A was added after one that reads A: the writer has the
\* reader as predecessor, and the reader has none
C27_Witness ==
    /\ add_result.kind = "Ok"
    /\ DOMAIN items = {1, 2}
    /\ items[1].reads = {"A"} /\ items[1].dependencies = <<>>
    /\ items[2].writes = {"A"} /\ items[2].dependencies = <<1>>

\* ------------------------------------------------------------------------
\* Properties of the dispatcher with failing units
\* ------------------------------------------------------------------------

\* C28: when no dispatch call is under way the world slot is null; no unit
\* task has found the slot null when it read it; and no unit task is in its
\* body, with the reference it took from the slot, once the dispatch call
\* has returned.
C28_WorldSlotOnlyDuringDispatch ==
    built =>
        /\ disp.pc = "idle" => world.ptr = "null"
        /\ \A u \in DOMAIN task : ~task[u].unwinding
        /\ disp.pc = "idle" => \A u \in DOMAIN task : task[u].pc # "body"

\* C29: a dispatch call made when no unit task holds a receiver of the tick
\* signal, every unit without predecessors having exited or no unit having
\* been registered, returns Err(DispatchSend) at once: no completion signal
\* is awaited, no signal is sent and no unit task takes a step.
C29_NoListenerMeansDispatchSend ==
    [][dispatch /\ ReceiverCount(TickChannel) = 0 =>
          /\ disp'.pc = "idle"
          /\ disp'.result = "DispatchSend"
          /\ task' = task
          /\ version' = version]_vars

\* the second dispatch call has returned DispatchSend, the two units having
\* exited in the first
C29_Witness ==
    /\ built
    /\ disp.pc = "idle" /\ disp.result = "DispatchSend" /\ disp.ticks = 2
    /\ DOMAIN task = {1, 2}
    /\ \A u \in DOMAIN task : task[u].pc = "exit"

\* the final units whose completion signal the dispatch call has yet to get
Awaited == {disp.receivers[i] : i \in disp.idx..Len(disp.receivers)}

\* the dispatch call awaits a final unit that is u or depends on u, and the
\* task of u has terminated
AwaitsTerminated(u) ==
    /\ built
    /\ disp.pc = "await"
    /\ u \in DOMAIN task
    /\ task[u].pc = "exit"
    /\ \E f \in Awaited : f = u \/ depends_on(items, f, u)

\* C30: a dispatch call that awaits a final unit which has terminated, or
\* which depends on a unit that has, returns Err(DispatchReceive): when the
\* receiver it awaits has lost its sender and holds no unseen signal the call
\* returns that error at once, and through the exits of the dependent unit
\* tasks it always gets there.
C30_TerminatedUnitEndsDispatch ==
    /\ [][(/\ DispatchChanged
           /\ SenderDropped(disp.receivers[disp.idx])
           /\ ~HasChanged(disp.receivers[disp.idx], disp.seen[disp.idx]))
          => (disp'.pc = "idle" /\ disp'.result = "DispatchReceive")]_vars
    /\ \A u \in 1..MaxUnits :
          AwaitsTerminated(u) ~> (disp.pc = "idle" /\ disp.result = "DispatchReceive")

\* ------------------------------------------------------------------------
\* Properties of the unit tasks' loops
\* ------------------------------------------------------------------------

\* the sending side of a receiver of a unit task is gone: the Dispatcher for
\* the tick signal, the task of the predecessor for its completion signal
SenderGone(c) ==
    IF c = TickChannel THEN disp.pc \in {"dropped", "panicked"} ELSE task[c].pc = "exit"

\* somebody holds a receiver of the completion signal of u: the task of a
\* unit that has u as stored predecessor, or the Dispatcher if u is final
SomebodyReceives(u) ==
    \/ \E v \in DOMAIN task : task[v].pc # "exit" /\ u \in Range(items[v].dependencies)
    \/ disp.pc \notin {"dropped", "panicked"} /\ u \in Range(final_systems(items))

Failures == {Failure(op) : op \in {"borrow", "try_borrow", "borrow_mut", "try_borrow_mut"}}

\* C32: a step that ends in a refused acquisition (None of try_borrow and
\* try_borrow_mut, the panic of borrow and borrow_mut) leaves the flag and
\* the guards of every thread as they were; and a guard dropped afterwards,
\* as any guard, gives back what it took: the drop of a RefMut sets the flag
\* to 0 and the drop of a Ref lowers it by one.
C32_FailedAcquisitionChangesNothing ==
    [][/\ last'.value \in Failures =>
             /\ flag' = flag
             /\ \A t \in Threads : /\ cell'[t].refs = cell[t].refs
                                    /\ cell'[t].muts = cell[t].muts
       /\ \A t \in Threads :
             /\ cell'[t].muts < cell[t].muts => flag' = 0
             /\ cell'[t].refs < cell[t].refs => flag' = flag - 1]_vars

\* try_borrow_mut of one thread has returned None while another thread holds
\* the RefMut, and the flag is still the exclusive marker
C32_Witness ==
    \E t \in Threads, u \in Threads :
        /\ t # u
        /\ cell[t].muts = 1
        /\ cell[u].refs = 0 /\ cell[u].muts = 0
        /\ last = [thread |-> u, value |-> "None"]
        /\ flag = UsizeMax

\* ------------------------------------------------------------------------
\* Properties of the guards' map
\* ------------------------------------------------------------------------

\* C33: Ref::map and RefMut::map do not touch the borrow flag and leave the
\* guards of every thread as they are; with mapped guards around the flag
\* still counts the live Ref guards, or is usize::MAX for the one RefMut, so
\* the cell stays borrowed; dropping a guard after a map releases the flag
\* of the original cell: one less for a Ref, 0 for a RefMut.
C33_MapKeepsTheBorrow ==
    /\ [](flag = IF LiveRefMuts = 1 THEN UsizeMax ELSE LiveRefs)
    /\ [][/\ \A t \in Threads :
                (RefMap(t) \/ RefMutMap(t)) =>
                    /\ flag' = flag
                    /\ \A u \in Threads : /\ cell'[u].refs = cell[u].refs
                                           /\ cell'[u].muts = cell[u].muts
          /\ \A t \in Threads :
                /\ last.value = "mapped" /\ last.thread = t /\ RefDrop(t)
                      => flag' = flag - 1
                /\ last.value = "mapped_mut" /\ last.thread = t /\ RefMutDrop(t)
                      => flag' = 0]_vars

\* a thread has mapped its RefMut and the cell is still borrowed mutably
C33_Witness ==
    /\ last.value = "mapped_mut"
    /\ cell[last.thread].muts = 1
    /\ flag = UsizeMax

\* C34: when borrow or borrow_mut panics, the message names the kind of the
\* borrow that is in the way: "already borrowed mutably" while a RefMut is
\* live, "already borrowed immutably" while a Ref is live.
C34_PanicNamesTheConflict ==
    [][\A t \in Threads :
          /\ borrow(t) \/ borrow_mut(t)
          /\ last'.value \in {Failure("borrow"), Failure("borrow_mut")}
          => /\ LiveRefMuts >= 1
                   => last'.value = "panic: already borrowed mutably"
             /\ LiveRefs >= 1
                   => last'.value = "panic: already borrowed immutably"]_vars

\* ------------------------------------------------------------------------
\* Properties of the registry's bookkeeping
\* ------------------------------------------------------------------------

\* C35: an entity that is alive stays alive over every call, maintain
\* included, until kill or delete is called on that very entity; this holds
\* also for an entity that has the index of an entity deleted earlier.
C35_AliveUntilKilled ==
    [][\A e \in ehist.held \ ehist'.doomed :
          is_alive(ent, e) => is_alive(ent', e)]_vars

\* the call that returns in this step hands out an entity
HandsOut == AllocateStep \/ \E t \in Threads : CreateRaise(t)

\* C36: with allocate and create mixed, an index is not handed out again
\* while its entity is alive, handing out an entity changes is_alive of no
\* entity handed out before, and both paths take the same index as the next
\* fresh one when the cache is empty.
C36_AllocateAndCreateAgree ==
    /\ [][HandsOut =>
            \A e \in ehist.held \ {ehist'.ret} :
                /\ is_alive(ent, e) => ehist'.ret.index # e.index
                /\ is_alive(ent', e) <=> is_alive(ent, e)]_vars
    /\ [](Exclusive /\ ent.len = 0 =>
            allocate(ent).entity.index = IncrementResult(ent.max_index))

\* how often index stands among the free indices of the cache
TimesFree(r, index) ==
    Cardinality({i \in 1..Len(FreeIndices(r)) : FreeIndices(r)[i] = index})

\* C37: between the calls, every index that was handed out is exactly one of
\* alive, pending in the raised buffer, or once in the cache: no index is
\* lost, stands twice in the cache, or is in the cache while it is alive.
C37_IndicesAreConserved ==
    Exclusive =>
        \A index \in {e.index : e \in ehist.held} :
            /\ TimesFree(ent, index) <= 1
            /\ Cardinality({place \in {"alive", "raised", "cache"} :
                   \/ place = "alive" /\ index \in ent.alive
                   \/ place = "raised" /\ index \in ent.raised
                   \/ place = "cache" /\ TimesFree(ent, index) >= 1}) = 1

\* ------------------------------------------------------------------------
\* Properties of the components of recycled indices
\* ------------------------------------------------------------------------

\* what StorageWrapper::get reads for the entity in the storage looked at
Readable(w, entity) == wrapper_get(w.entities, w.storages[Looked], entity)

\* C38: a component becomes readable for an entity only by an insert for
\* that very entity, index and generation, and it is the value inserted; no
\* other call makes a component readable, so an entity that is handed the
\* index of an earlier entity, removed by delete and World::maintain or by
\* Entities::kill, does not read the component of the earlier one.
C38_RecycledIndexReadsNothing ==
    [][\A entity \in whist'.held :
          /\ Readable(wld', entity) # None
          /\ Readable(wld', entity) # Readable(wld, entity)
          => \E component \in ValuesOf(Looked) :
                /\ WrapperInsert(entity, Looked, component)
                /\ Readable(wld', entity) = Some(component)]_vars

\* ------------------------------------------------------------------------
\* Properties of the redirection tables of DenseVecStorage
\* ------------------------------------------------------------------------

\* data_id and entity_id point at each other for every index of the mask,
\* and data and entity_id have one slot for each index of the mask
TablesConsistent ==
    /\ Len(sto.data) = Cardinality(sto.mask)
    /\ Len(sto.entity_id) = Cardinality(sto.mask)
    /\ \A index \in sto.mask :
          /\ index + 1 <= Len(sto.data_id)
          /\ sto.data_id[index + 1] \in 0..(Len(sto.entity_id) - 1)
          /\ sto.entity_id[sto.data_id[index + 1] + 1] = index

\* C39: for a DenseVecStorage behind its mask, after any inserts and removes
\* get reads at every present index the value last inserted there, remove
\* returns that value, entity_id[data_id[i]] = i for every present index i,
\* and data and entity_id have exactly one slot for each present index.
C39_DenseTablesStayConsistent ==
    /\ [](/\ sto.kind = "DenseVecStorage"
          /\ ~sto.ub
          /\ sto.mask = DOMAIN shist.map
          /\ \A index \in sto.mask : storage_get(sto, index) = shist.map[index]
          /\ TablesConsistent)
    /\ [][\A index \in DOMAIN shist.map :
            MaskedRemove(index) => shist'.ret = Some(shist.map[index])]_vars

\* index 0 was removed from the first slot of data and the value of index 1
\* was moved from the second slot into the gap
C39_Witness ==
    /\ sto.kind = "DenseVecStorage"
    /\ shist.op = "remove"
    /\ shist.ret # None
    /\ sto.mask = {1}
    /\ sto.data_id = <<0, 0>>
    /\ sto.entity_id = <<1>>

\* ------------------------------------------------------------------------
\* Properties of the split of a BitIter
\* ------------------------------------------------------------------------

\* the values of a list are pairwise different
EachOnce(s) == Cardinality(Range(s)) = Len(s)

\* what the part split off yields; nothing when split returned None
YieldedRight == IF split.right = None THEN <<>> ELSE Yielded(split.right[1])

\* C40: after the split of a BitIter newly made over a bitset, the indices
\* the left part yields and those the right part yields are disjoint,
\* together they are the indices the unsplit iterator yields, each exactly
\* once, every index of the left part is below every index of the right
\* part, and at the level that was split at its bit average the numbers of
\* bits of the two parts differ by at most one.
C40_SplitPartitionsTheKeys ==
    split.done =>
        LET l == Yielded(split.left)
            r == YieldedRight
            whole == Yielded(BitIter_new(split.set))
        IN /\ Range(whole) = split.set /\ EachOnce(whole)
           /\ Range(l) \cap Range(r) = {}
           /\ Range(l) \cup Range(r) = Range(whole)
           /\ EachOnce(l) /\ EachOnce(r)
           /\ \A i \in Range(l) : \A j \in Range(r) : i < j
           /\ split.right # None =>
                 \A level \in 1..LAYERS :
                     split.right[1].masks[level] # {} =>
                         /\ Cardinality(split.left.masks[level])
                                - Cardinality(split.right[1].masks[level]) \in {-1, 0, 1}
                         /\ split.left.masks[level] \cup split.right[1].masks[level]
                                = get_from_layer(split.set, level - 1,
                                                 level_prefix(split.left, level - 1) \div WordBits)

\* a bitset whose indices are all below one bit of layer 3 and one bit of
\* layer 2 was split at layer 1, into parts that both yield indices
C40_Witness ==
    /\ split.done
    /\ split.right # None
    /\ split.right[1].masks[2] # {}
    /\ Len(Yielded(split.left)) >= 2
    /\ Len(YieldedRight) >= 1

====
